---- MODULE Spec2Model ----
(***************************************************************************)
(* A model of scripts/sync-stats.js: the two-level scan of the skills      *)
(* directory, the frontmatter metadata extraction, the parsing of the      *)
(* registry manifests, the reconciliation, the rewrite of the count phrases *)
(* in the documents and the run of main().                                 *)
(*                                                                         *)
(* Text is a sequence of tokens: a token is one character, or one of the   *)
(* fixed words the patterns of the script look for ("---", "name:", ...).  *)
(* A file name is a sequence of tokens, a path a sequence of names.        *)
(***************************************************************************)
EXTENDS Integers, Sequences, FiniteSets, TLC

VARIABLES
    pc,             \* position of the run in main()
    run,            \* 1: first run; 2: a second run after the marker files were edited
    dirs,           \* the directories that exist (paths)
    files,          \* the files that exist (paths)
    markerText,     \* the text of the SKILL.md files read by parseSkillMetadata
    indexText,      \* the lines of registry/index.yaml
    i18nText,       \* the lines of registry/i18n/zh-CN.yaml
    statsBySource,  \* collectStats().statsBySource
    broken,         \* collectStats().broken
    totalCount,     \* main: totalCount
    sourceCount,    \* main: sourceCount
    verified,       \* main: what verifyTranslations returned, None before
    exitCode,       \* the exit status of the process, None while it runs
    prev,           \* what was there before the last run or call, kept to compare
    meta,           \* what parseSkillMetadata returned (metadata specification)
    index,          \* what parseIndex returned (index specification)
    args,           \* process.argv.slice(2), as the set of its flags
    docs,           \* the text of README.md and of docs/skills.md
    updated,        \* what the calls of updateStatsInFile returned, in order
    written,        \* the paths fs.writeFileSync was called with, in order
    warnings        \* the paths reported as "File not found" (line 140), in order

vars == <<pc, run, dirs, files, markerText, indexText, i18nText, statsBySource,
          broken, totalCount, sourceCount, verified, exitCode, prev, meta, index,
          args, docs, updated, written,
                   warnings>>

-----------------------------------------------------------------------------
(* Bounds of the model. *)

\* the most files and empty directories a skills tree is drawn with
MaxFiles == 3
\* the most lines a marker file is drawn with
MaxMetaLines == 4
\* the most lines an index manifest is drawn with
MaxIndexLines == 4
\* the most records a manifest written record by record is drawn with
MaxRecords == 2
\* the most pieces a document is drawn with
MaxPieces == 3

\* the most lines a translation manifest is drawn with
MaxI18nLines == 4

-----------------------------------------------------------------------------
(* Tokens. *)

NL == "\n"
SP == " "
DQ == "\""
SQ == "'"
DASHES == "---"
AT == "@"
SLASH == "/"

\* a value that may be absent: <<>> when absent, <<v>> when it is v
None == <<>>
Some(v) == <<v>>

\* the element of a set of one element; what is bound to the element of a set
\* is computed once, however often it is used
TheOne(S) == CHOOSE x \in S : TRUE

IsSpace(c) == c \in {SP, NL}
IsQuote(c) == c \in {DQ, SQ}

\* String.prototype.trim
RECURSIVE trimStart(_)
trimStart(s) ==
    IF s # <<>> /\ IsSpace(Head(s)) THEN trimStart(Tail(s)) ELSE s

RECURSIVE trimEnd(_)
trimEnd(s) ==
    IF s # <<>> /\ IsSpace(s[Len(s)]) THEN trimEnd(SubSeq(s, 1, Len(s) - 1)) ELSE s

trim(s) == trimEnd(trimStart(s))

\* String.prototype.startsWith, for a one-token prefix
startsWith(s, c) == Len(s) >= 1 /\ s[1] = c

\* String.prototype.endsWith, for a one-token suffix
endsWith(s, c) == Len(s) >= 1 /\ s[Len(s)] = c

\* String.prototype.slice(1)
slice1(s) == SubSeq(s, 2, Len(s))

\* String.prototype.slice(1, -1)
slice1m1(s) == SubSeq(s, 2, Len(s) - 1)

\* String.prototype.split('\n')
RECURSIVE splitLines(_)
splitLines(s) ==
    IF \E i \in 1..Len(s) : s[i] = NL
    THEN TheOne({<<SubSeq(s, 1, p[1] - 1)>> \o splitLines(p[2]) :
                    p \in {<<k, SubSeq(s, k + 1, Len(s))>> :
                              k \in {k \in 1..Len(s) :
                                        s[k] = NL /\ \A j \in 1..(k - 1) : s[j] # NL}}})
    ELSE <<s>>

\* Array.prototype.join('\n'), the inverse of split
RECURSIVE joinLines(_)
joinLines(ls) ==
    IF ls = <<>> THEN <<>>
    ELSE IF Len(ls) = 1 THEN ls[1]
    ELSE ls[1] \o <<NL>> \o joinLines(Tail(ls))

\* the sequences over S of length at most n
SeqUpTo(S, n) == UNION {[1..k -> S] : k \in 0..n}

-----------------------------------------------------------------------------
(* Paths (src/scripts/sync-stats.js:18-21, 386). *)

Name(w) == <<w>>

ROOT_DIR == <<Name("skillwisp")>>
SKILLS_DIR == Append(ROOT_DIR, Name("skills"))
README_PATH == Append(ROOT_DIR, Name("README.md"))
SKILLS_MD_PATH == ROOT_DIR \o <<Name("docs"), Name("skills.md")>>
SKILL_MD == Name("SKILL.md")

\* path.join(ROOT_DIR, '..', 'skillwisp-cli', 'registry')
cliRegistryPath == SubSeq(ROOT_DIR, 1, Len(ROOT_DIR) - 1)
                       \o <<Name("skillwisp-cli"), Name("registry")>>
i18nPath == cliRegistryPath \o <<Name("i18n"), Name("zh-CN.yaml")>>
indexPath == Append(cliRegistryPath, Name("index.yaml"))

\* path.dirname, path.basename
dirname(p) == SubSeq(p, 1, Len(p) - 1)
basename(p) == p[Len(p)]

IsPrefix(p, q) == Len(p) <= Len(q) /\ SubSeq(q, 1, Len(p)) = p

\* path.relative(from, to).split(path.sep), for a path below from
relativeParts(from, to) == SubSeq(to, Len(from) + 1, Len(to))

\* every proper ancestor of a path
Ancestors(p) == {SubSeq(p, 1, k) : k \in 0..(Len(p) - 1)}

-----------------------------------------------------------------------------
(* The file system, as the calls of the fs module see it. *)

\* the names the trees of the model are built from, in the order readdirSync
\* lists them
NsEmpty == <<AT>>
NsA == <<AT, "a">>
NsB == <<AT, "b">>
NsFile == <<AT, "c">>
Lib == <<"l">>
IdX == <<"x">>
IdY == <<"y">>
Sub == <<"s">>
Doc == <<"f">>

NameOrder == <<NsEmpty, NsA, NsB, NsFile, SKILL_MD, Doc, Lib, Sub, IdX, IdY>>

\* fs.existsSync
existsSync(p) == p \in dirs \/ p \in files

\* fs.readdirSync(dir, { withFileTypes: true }): the entries of dir, each with
\* its name and isDirectory(); it raises ENOENT when dir is no directory
readdirSync(dir) ==
    IF dir \notin dirs THEN [enoent |-> TRUE, entries |-> <<>>]
    ELSE LET children == {p \in dirs \cup files : Len(p) = Len(dir) + 1 /\ IsPrefix(dir, p)}
             names == {basename(p) : p \in children}
             ordered == SelectSeq(NameOrder, LAMBDA n : n \in names)
         IN  [enoent |-> FALSE,
              entries |-> [i \in 1..Len(ordered) |->
                 [name |-> ordered[i], isDirectory |-> Append(dir, ordered[i]) \in dirs]]]

-----------------------------------------------------------------------------
(* scanSkillDirs (src/scripts/sync-stats.js:43-79). *)

\* the body of the inner loop with the test of line 60 left out: a file of a
\* namespace directory is taken for a skill directory
scanSkillEntryAnyType(sourceEntry, sourceDir, skillEntry) ==
    LET skillDir == Append(sourceDir, skillEntry.name)
        entryPath == Append(skillDir, SKILL_MD)
    IN  IF ~existsSync(entryPath)
        THEN [results |-> <<>>,
              broken |-> <<[source |-> slice1(sourceEntry.name),
                            id |-> skillEntry.name,
                            dir |-> skillDir]>>]
        ELSE [results |-> <<entryPath>>, broken |-> <<>>]

\* the body of the inner loop with the continue of line 71 left out: a broken
\* directory is pushed to the results too
scanSkillEntryNoContinue(sourceEntry, sourceDir, skillEntry) ==
    LET skillDir == Append(sourceDir, skillEntry.name)
        entryPath == Append(skillDir, SKILL_MD)
    IN  IF ~skillEntry.isDirectory THEN [results |-> <<>>, broken |-> <<>>]
        ELSE IF ~existsSync(entryPath)
        THEN [results |-> <<entryPath>>,
              broken |-> <<[source |-> slice1(sourceEntry.name),
                            id |-> skillEntry.name,
                            dir |-> skillDir]>>]
        ELSE [results |-> <<entryPath>>, broken |-> <<>>]

\* the body of the inner loop, lines 60-74: what one entry of a namespace
\* directory adds to results and to broken
scanSkillEntry(sourceEntry, sourceDir, skillEntry) ==
    LET skillDir == Append(sourceDir, skillEntry.name)
        entryPath == Append(skillDir, SKILL_MD)
    IN  IF ~skillEntry.isDirectory THEN [results |-> <<>>, broken |-> <<>>]
        ELSE IF ~existsSync(entryPath)
        THEN [results |-> <<>>,
              broken |-> <<[source |-> slice1(sourceEntry.name),
                            id |-> skillEntry.name,
                            dir |-> skillDir]>>]
        ELSE [results |-> <<entryPath>>, broken |-> <<>>]

\* the inner loop, lines 59-75, over the entries of one namespace directory
RECURSIVE scanSkillEntries(_, _, _)
scanSkillEntries(sourceEntry, sourceDir, skillEntries) ==
    IF skillEntries = <<>> THEN [results |-> <<>>, broken |-> <<>>]
    ELSE LET one == scanSkillEntry(sourceEntry, sourceDir, Head(skillEntries))
             rest == scanSkillEntries(sourceEntry, sourceDir, Tail(skillEntries))
         IN  [results |-> one.results \o rest.results,
              broken |-> one.broken \o rest.broken]

\* the outer loop, lines 52-76, over the entries of the skills directory
RECURSIVE scanSourceEntries(_, _)
scanSourceEntries(skillsDir, sourceEntries) ==
    IF sourceEntries = <<>> THEN [results |-> <<>>, broken |-> <<>>]
    ELSE LET sourceEntry == Head(sourceEntries)
             rest == scanSourceEntries(skillsDir, Tail(sourceEntries))
             sourceDir == Append(skillsDir, sourceEntry.name)
             inner == scanSkillEntries(sourceEntry, sourceDir, readdirSync(sourceDir).entries)
         IN  IF ~sourceEntry.isDirectory THEN rest
             ELSE IF ~startsWith(sourceEntry.name, AT) THEN rest
             ELSE [results |-> inner.results \o rest.results,
                   broken |-> inner.broken \o rest.broken]

\* the scan with the test of line 47 left out: readdirSync raises on a missing root
scanSkillDirsNoGuard(skillsDir) ==
    LET sourceEntries == readdirSync(skillsDir)
    IN  IF sourceEntries.enoent
        THEN [raised |-> TRUE, results |-> <<>>, broken |-> <<>>]
        ELSE LET r == scanSourceEntries(skillsDir, sourceEntries.entries)
             IN  [raised |-> FALSE, results |-> r.results, broken |-> r.broken]

scanSkillDirs(skillsDir) ==
    IF ~existsSync(skillsDir)
    THEN [raised |-> FALSE, results |-> <<>>, broken |-> <<>>]
    ELSE LET sourceEntries == readdirSync(skillsDir)
         IN  IF sourceEntries.enoent
             THEN [raised |-> TRUE, results |-> <<>>, broken |-> <<>>]
             ELSE LET r == scanSourceEntries(skillsDir, sourceEntries.entries)
                  IN  [raised |-> FALSE, results |-> r.results, broken |-> r.broken]

-----------------------------------------------------------------------------
(* Reading files. *)

\* fs.readFileSync(path, 'utf-8') of the files the script reads
readFileSync(p) ==
    IF p = indexPath THEN indexText
    ELSE IF p = i18nPath THEN i18nText
    ELSE IF p \in DOMAIN docs THEN docs[p]
    ELSE markerText

-----------------------------------------------------------------------------
(* Regular expressions over token sequences. *)

Min(S) == CHOOSE x \in S : \A y \in S : x <= y
Max(S) == CHOOSE x \in S : \A y \in S : x >= y

AllSpace(s, a, b) == \A i \in a..b : IsSpace(s[i])
NoNewline(s, a, b) == \A i \in a..b : s[i] # NL

\* ^ under the m flag: the start of the text or the place after a newline
LineStarts(s) == {p \in 1..Len(s) : p = 1 \/ s[p - 1] = NL}

\* $ under the m flag: the end of the text or the place before a newline
AtEol(s, i) == i = Len(s) + 1 \/ (i <= Len(s) /\ s[i] = NL)

-----------------------------------------------------------------------------
(* parseSkillMetadata (src/scripts/sync-stats.js:84-100). *)

\* the pattern of line 86 without its ^ anchor: a block anywhere in the text
frontmatterMatchAnywhere(content) ==
    LET opens == {i \in 1..(Len(content) - 1) : content[i] = DASHES /\ content[i + 1] = NL}
        closers(i) == {j \in (i + 2)..(Len(content) - 1) :
                          content[j] = NL /\ content[j + 1] = DASHES}
        ok == {i \in opens : closers(i) # {}}
    IN  IF ok = {} THEN None
        ELSE Some(SubSeq(content, Min(ok) + 2, Min(closers(Min(ok))) - 1))

\* content.match(/^---\n([\s\S]*?)\n---/): capture 1, the shortest text between
\* the opening "---\n" and a following "\n---"
frontmatterMatch(content) ==
    LET closers == {j \in 3..(Len(content) - 1) :
                       content[j] = NL /\ content[j + 1] = DASHES}
    IN  IF Len(content) >= 2 /\ content[1] = DASHES /\ content[2] = NL /\ closers # {}
        THEN Some(SubSeq(content, 3, Min(closers) - 1))
        ELSE None

\* /^name:\s*(.+)$/m tried at place p: \s* takes the longest run of white space
\* (newlines included) that leaves (.+) at least one token of a line
nameMatchAt(fm, p) ==
    IF fm[p] # "name:" THEN None
    ELSE LET q == p + 1
             ks == {k \in 0..(Len(fm) - q + 1) :
                       /\ AllSpace(fm, q, q + k - 1)
                       /\ q + k <= Len(fm)
                       /\ fm[q + k] # NL}
         IN  IF ks = {} THEN None
             ELSE LET s == q + Max(ks)
                      e == Max({i \in s..Len(fm) : NoNewline(fm, s, i)})
                  IN  Some(SubSeq(fm, s, e))

\* frontmatter.match(/^name:\s*(.+)$/m): capture 1
\* at the first line start where the pattern matches, null if there is none
nameMatch(fm) ==
    LET ok == {p \in LineStarts(fm) : nameMatchAt(fm, p) # None}
    IN  IF ok = {} THEN None ELSE nameMatchAt(fm, Min(ok))

\* /^description:\s*["']?(.+?)["']?\s*$/m tried at place p. A way to match is
\* <<k, oq, m>>: k tokens of white space, an opening quote or not, m captured
\* tokens; the engine prefers the longest k, then the quote, then the shortest m
descWays(fm, p) ==
    LET q == p + 1
        closes(e) ==
            \E cq \in {0, 1} :
                /\ cq = 1 => (e <= Len(fm) /\ IsQuote(fm[e]))
                /\ \E t \in 0..(Len(fm) - (e + cq) + 1) :
                       /\ AllSpace(fm, e + cq, e + cq + t - 1)
                       /\ AtEol(fm, e + cq + t)
    IN  {w \in (0..(Len(fm) - q + 1)) \X {0, 1} \X (1..Len(fm)) :
            LET s == q + w[1] + w[2]
            IN  /\ AllSpace(fm, q, q + w[1] - 1)
                /\ w[2] = 1 => (q + w[1] <= Len(fm) /\ IsQuote(fm[q + w[1]]))
                /\ s + w[3] - 1 <= Len(fm)
                /\ NoNewline(fm, s, s + w[3] - 1)
                /\ closes(s + w[3])}

descMatchAt(fm, p) ==
    IF fm[p] # "description:" THEN None
    ELSE LET ways == descWays(fm, p)
         IN  IF ways = {} THEN None
             ELSE LET k == Max({w[1] : w \in ways})
                      oq == Max({w[2] : w \in {v \in ways : v[1] = k}})
                      m == Min({w[3] : w \in {v \in ways : v[1] = k /\ v[2] = oq}})
                      s == p + 1 + k + oq
                  IN  Some(SubSeq(fm, s, s + m - 1))

\* frontmatter.match(/^description:\s*["']?(.+?)["']?\s*$/m): capture 1
\* at the first line start where the pattern matches, null if there is none
descMatch(fm) ==
    LET ok == {p \in LineStarts(fm) : descMatchAt(fm, p) # None}
    IN  IF ok = {} THEN None ELSE descMatchAt(fm, Min(ok))

parseSkillMetadata(filePath) ==
    LET content == readFileSync(filePath)
        match == frontmatterMatch(content)
    IN  IF match = None
        THEN [name |-> basename(dirname(filePath)), description |-> <<>>]
        ELSE LET frontmatter == match[1]
                 nameM == nameMatch(frontmatter)
                 descM == descMatch(frontmatter)
             IN  [name |-> IF nameM # None THEN trim(nameM[1])
                           ELSE basename(dirname(filePath)),
                  description |-> IF descM # None THEN trim(descM[1]) ELSE <<>>]

-----------------------------------------------------------------------------
(* collectStats (src/scripts/sync-stats.js:105-133). *)

\* statsBySource[source].push(entry), on an object kept as the list of its
\* keys in insertion order, each with its value
pushBySource(stats, source, entry) ==
    IF \E i \in 1..Len(stats) : stats[i].source = source
    THEN LET i == CHOOSE k \in 1..Len(stats) : stats[k].source = source
         IN  [stats EXCEPT ![i].skills = Append(@, entry)]
    ELSE Append(stats, [source |-> source, skills |-> <<entry>>])

\* the entry of lines 125-129 with the metadata spread over the id: the name of
\* the frontmatter becomes the id
statsEntryIdFromName(skillId, filePath) ==
    LET m == parseSkillMetadata(filePath)
    IN  [id |-> m.name, path |-> filePath, name |-> m.name, description |-> m.description]

\* lines 125-129: { id: skillId, path: filePath, ...parseSkillMetadata(filePath) }
statsEntry(skillId, filePath) ==
    LET m == parseSkillMetadata(filePath)
    IN  [id |-> skillId, path |-> filePath, name |-> m.name, description |-> m.description]

\* the loop of lines 109-130
RECURSIVE collectFiles(_, _)
collectFiles(skillFiles, stats) ==
    IF skillFiles = <<>> THEN stats
    ELSE TheOne({collectFiles(Tail(skillFiles), next) :
            next \in {LET filePath == Head(skillFiles)
                          parts == relativeParts(SKILLS_DIR, filePath)
                      IN  IF Len(parts) # 3 THEN stats
                          ELSE IF ~startsWith(parts[1], AT) THEN stats
                          ELSE IF parts[3] # SKILL_MD THEN stats
                          ELSE LET source == slice1(parts[1])
                                   skillId == parts[2]
                               IN  pushBySource(stats, source,
                                                statsEntry(skillId, filePath))}})

collectStats ==
    TheOne({[raised |-> scan.raised,
             statsBySource |-> collectFiles(scan.results, <<>>),
             broken |-> scan.broken] :
               scan \in {scanSkillDirs(SKILLS_DIR)}})

-----------------------------------------------------------------------------
(* parseTranslations (src/scripts/sync-stats.js:198-230). *)

IsLower(c) == c \in {"a", "b", "c", "l", "s", "x", "y"}
IsDigit(c) == c \in {"0", "1", "2"}

\* /^  ([a-z][a-z0-9-]*):$/ on one line: capture 1
i18nSourceMatch(line) ==
    IF /\ Len(line) >= 4
       /\ line[1] = SP /\ line[2] = SP
       /\ IsLower(line[3])
       /\ \A i \in 4..(Len(line) - 1) : IsLower(line[i]) \/ IsDigit(line[i]) \/ line[i] = "-"
       /\ line[Len(line)] = ":"
    THEN Some(SubSeq(line, 3, Len(line) - 1))
    ELSE None

\* /^    ([a-z][a-z0-9.-]*):$/ on one line: capture 1
i18nSkillMatch(line) ==
    IF /\ Len(line) >= 6
       /\ \A i \in 1..4 : line[i] = SP
       /\ IsLower(line[5])
       /\ \A i \in 6..(Len(line) - 1) :
              IsLower(line[i]) \/ IsDigit(line[i]) \/ line[i] \in {"-", "."}
       /\ line[Len(line)] = ":"
    THEN Some(SubSeq(line, 5, Len(line) - 1))
    ELSE None

\* translations[source] ||= {}: a source seen before keeps its ids
resetSourceKeeping(translations, source) ==
    IF \E i \in 1..Len(translations) : translations[i].source = source
    THEN translations
    ELSE Append(translations, [source |-> source, ids |-> <<>>])

\* translations[source] = {}: the key keeps its place, its value is emptied
resetSource(translations, source) ==
    IF \E i \in 1..Len(translations) : translations[i].source = source
    THEN [i \in 1..Len(translations) |->
             IF translations[i].source = source
             THEN [source |-> source, ids |-> <<>>] ELSE translations[i]]
    ELSE Append(translations, [source |-> source, ids |-> <<>>])

\* translations[source][skill] = {}
addSkill(translations, source, skill) ==
    [i \in 1..Len(translations) |->
        IF translations[i].source = source
              /\ \A j \in 1..Len(translations[i].ids) : translations[i].ids[j] # skill
        THEN [translations[i] EXCEPT !.ids = Append(@, skill)]
        ELSE translations[i]]

\* the loop of lines 211-227; currentSource is None for null
RECURSIVE i18nLines(_, _, _)
i18nLines(lines, currentSource, translations) ==
    IF lines = <<>> THEN translations
    ELSE TheOne({i18nLines(Tail(lines), next[1], next[2]) :
            next \in {LET line == Head(lines)
                          sourceM == i18nSourceMatch(line)
                          skillM == i18nSkillMatch(line)
                      IN  IF sourceM # None
                          THEN <<sourceM, resetSource(translations, sourceM[1])>>
                          ELSE IF skillM # None /\ currentSource # None
                          THEN <<currentSource,
                                 addSkill(translations, currentSource[1], skillM[1])>>
                          ELSE <<currentSource, translations>>}})

parseTranslations(filePath) ==
    IF ~existsSync(filePath) THEN <<>>
    ELSE TheOne({i18nLines(lines, None, <<>>) :
                    lines \in {splitLines(readFileSync(filePath))}})

-----------------------------------------------------------------------------
(* parseIndex (src/scripts/sync-stats.js:235-293). *)

unquote(value) ==
    LET v == trim(value)
    IN  IF (startsWith(v, DQ) /\ endsWith(v, DQ)) \/ (startsWith(v, SQ) /\ endsWith(v, SQ))
        THEN slice1m1(v)
        ELSE v

\* the first place at or after i that holds no white space
SkipSpace(line, i) ==
    Min({j \in i..(Len(line) + 1) : j = Len(line) + 1 \/ ~IsSpace(line[j])})

\* /^\s*key:\s*(.+)\s*$/ from place b of a line, where the key is expected:
\* capture 1, which takes the rest of the line and at least one token of it
captureAfterKey(line, b, key) ==
    IF b > Len(line) \/ line[b] # key THEN None
    ELSE LET q == b + 1
             ks == {k \in 0..(Len(line) - q + 1) :
                       AllSpace(line, q, q + k - 1) /\ q + k <= Len(line)}
         IN  IF ks = {} THEN None ELSE Some(SubSeq(line, q + Max(ks), Len(line)))

\* line.match(/^\s*-\s*id:\s*(.+)\s*$/): capture 1
idMatch(line) ==
    LET a == SkipSpace(line, 1)
    IN  IF a > Len(line) \/ line[a] # "-" THEN None
        ELSE TheOne({captureAfterKey(line, b, "id:") : b \in {SkipSpace(line, a + 1)}})

\* line.match(/^\s*source:\s*(.+)\s*$/): capture 1
indexSourceMatch(line) ==
    TheOne({captureAfterKey(line, b, "source:") : b \in {SkipSpace(line, 1)}})

\* line.match(/^\s*path:\s*(.+)\s*$/): capture 1
pathMatch(line) ==
    TheOne({captureAfterKey(line, b, "path:") : b \in {SkipSpace(line, 1)}})

\* current && current.id && current.source && current.path
isComplete(current) ==
    /\ current # None
    /\ current[1].id # <<>>
    /\ current[1].source # <<>>
    /\ current[1].path # <<>>

\* the flush of lines 257-259 and 279-281
flush(entries, current) ==
    IF isComplete(current) THEN Append(entries, current[1]) ELSE entries

\* the loop of lines 254-277: the records flushed so far and the open record,
\* None for null
RECURSIVE indexLines(_, _, _)
indexLines(lines, current, entries) ==
    IF lines = <<>> THEN [current |-> current, entries |-> entries]
    ELSE TheOne({indexLines(Tail(lines), next.current, next.entries) :
            next \in {LET line == Head(lines)
                          idM == idMatch(line)
                          sourceM == indexSourceMatch(line)
                          pathM == pathMatch(line)
                      IN  IF idM # None
                          THEN [current |-> Some([id |-> unquote(idM[1]),
                                                  source |-> <<>>, path |-> <<>>]),
                                entries |-> flush(entries, current)]
                          ELSE IF current = None
                          THEN [current |-> current, entries |-> entries]
                          ELSE IF sourceM # None
                          THEN [current |-> Some([current[1] EXCEPT
                                                     !.source = unquote(sourceM[1])]),
                                entries |-> entries]
                          ELSE IF pathM # None
                          THEN [current |-> Some([current[1] EXCEPT
                                                     !.path = unquote(pathM[1])]),
                                entries |-> entries]
                          ELSE [current |-> current, entries |-> entries]}})

\* lines 241-281: the records of the manifest text
indexEntries(content) ==
    TheOne({flush(r.entries, r.current) :
               r \in {TheOne({indexLines(lines, None, <<>>) :
                                 lines \in {splitLines(content)}})}})

\* bySource[e.source].push(e), lines 287-288
groupBySource(bySource, e) ==
    IF \E i \in 1..Len(bySource) : bySource[i].source = e.source
    THEN [i \in 1..Len(bySource) |->
             IF bySource[i].source = e.source
             THEN [bySource[i] EXCEPT !.entries = Append(@, e)] ELSE bySource[i]]
    ELSE Append(bySource, [source |-> e.source, entries |-> <<e>>])

\* byPath[e.path] = e with a test before it: the first record of a path is kept
putByPathFirstWins(byPath, e) ==
    [p \in DOMAIN byPath \cup {e.path} |-> IF p \in DOMAIN byPath THEN byPath[p] ELSE e]

\* byPath[e.path] = e, line 289: a later record overwrites an earlier one
putByPath(byPath, e) ==
    [p \in DOMAIN byPath \cup {e.path} |-> IF p = e.path THEN e ELSE byPath[p]]

\* the loop of lines 286-290
RECURSIVE indexMaps(_, _, _)
indexMaps(entries, bySource, byPath) ==
    IF entries = <<>> THEN [bySource |-> bySource, byPath |-> byPath]
    ELSE TheOne({indexMaps(Tail(entries), next[1], next[2]) :
            next \in {<<groupBySource(bySource, Head(entries)),
                        putByPath(byPath, Head(entries))>>}})

\* the object parseIndex returns; a property the object lacks is None
parseIndex(filePath) ==
    IF ~existsSync(filePath)
    THEN [entries |-> None, bySource |-> None, byPath |-> None]
    ELSE TheOne({[entries |-> Some(entries),
                  bySource |-> Some(maps.bySource),
                  byPath |-> Some(maps.byPath)] :
            <<entries, maps>> \in
                {<<es, indexMaps(es, <<>>, <<>>)>> :
                    es \in {TheOne({indexEntries(content) :
                                       content \in {readFileSync(filePath)}})}}})

-----------------------------------------------------------------------------
(* verifyTranslations (src/scripts/sync-stats.js:298-353). *)

\* `@${source}/${id}`
CanonicalPathOf(source, id) == <<AT>> \o source \o <<SLASH>> \o id

\* x || d, for a property x that may be absent
OrElse(x, d) == IF x = None THEN d ELSE x[1]

\* the segments of a path written with "/", as path.join reads them
RECURSIVE pathSegments(_)
pathSegments(str) ==
    IF \E i \in 1..Len(str) : str[i] = SLASH
    THEN LET i == Min({k \in 1..Len(str) : str[k] = SLASH})
             head == SubSeq(str, 1, i - 1)
             rest == pathSegments(SubSeq(str, i + 1, Len(str)))
         IN  IF head = <<>> THEN rest ELSE <<head>> \o rest
    ELSE IF str = <<>> THEN <<>> ELSE <<str>>

\* translations[source] && translations[source][id]
hasTranslation(translations, source, id) ==
    \E i \in 1..Len(translations) :
        /\ translations[i].source = source
        /\ \E j \in 1..Len(translations[i].ids) : translations[i].ids[j] = id

\* the body of the inner loop with the path built without its "@"
verifySkillPathWithoutAt(source, skill, indexByPath, translations) ==
    LET expectedPath == source \o <<SLASH>> \o skill.id
    IN  IF expectedPath \notin DOMAIN indexByPath
        THEN <<[source |-> source, id |-> skill.id, type |-> "index",
                path |-> <<AT>> \o expectedPath]>>
        ELSE <<>>

\* the body of the inner loop without the continue of line 319: an entry the
\* index lacks is looked up in the translations too, under its own id
verifySkillNoContinue(source, skill, indexByPath, translations) ==
    LET expectedPath == CanonicalPathOf(source, skill.id)
        id == IF expectedPath \in DOMAIN indexByPath
              THEN indexByPath[expectedPath].id ELSE skill.id
    IN  (IF expectedPath \notin DOMAIN indexByPath
         THEN <<[source |-> source, id |-> skill.id, type |-> "index",
                 path |-> expectedPath]>>
         ELSE <<>>)
        \o (IF ~hasTranslation(translations, source, id)
            THEN <<[source |-> source, id |-> id,
                    type |-> "translation", path |-> expectedPath]>>
            ELSE <<>>)

\* the body of the inner loop of pass 1, lines 314-325: the records it pushes
verifySkill(source, skill, indexByPath, translations) ==
    LET expectedPath == CanonicalPathOf(source, skill.id)
    IN  IF expectedPath \notin DOMAIN indexByPath
        THEN <<[source |-> source, id |-> skill.id, type |-> "index",
                path |-> expectedPath]>>
        ELSE LET indexEntry == indexByPath[expectedPath]
             IN  IF ~hasTranslation(translations, source, indexEntry.id)
                 THEN <<[source |-> source, id |-> indexEntry.id,
                         type |-> "translation", path |-> expectedPath]>>
                 ELSE <<>>

\* pass 1 for the skills of one source, lines 313-326
RECURSIVE verifySkills(_, _, _, _)
verifySkills(source, skills, indexByPath, translations) ==
    IF skills = <<>> THEN <<>>
    ELSE verifySkill(source, Head(skills), indexByPath, translations)
             \o verifySkills(source, Tail(skills), indexByPath, translations)

\* pass 1, lines 312-327
RECURSIVE verifySources(_, _, _)
verifySources(stats, indexByPath, translations) ==
    IF stats = <<>> THEN <<>>
    ELSE verifySkills(Head(stats).source, Head(stats).skills, indexByPath, translations)
             \o verifySources(Tail(stats), indexByPath, translations)

\* the path joined without 'SKILL.md': the directory of the record
entryFileDirectoryOnly(entry) == SKILLS_DIR \o pathSegments(entry.path)

\* the path joined to the root of the repository instead of SKILLS_DIR
entryFileUnderRoot(entry) == Append(ROOT_DIR \o pathSegments(entry.path), SKILL_MD)

\* path.join(SKILLS_DIR, entry.path, 'SKILL.md'), line 331
entryFileOf(entry) == Append(SKILLS_DIR \o pathSegments(entry.path), SKILL_MD)

\* pass 2, lines 330-335
RECURSIVE verifyIndexEntries(_)
verifyIndexEntries(entries) ==
    IF entries = <<>> THEN <<>>
    ELSE LET entry == Head(entries)
             entryFile == entryFileOf(entry)
         IN  IF ~existsSync(entryFile)
             THEN <<[source |-> entry.source, id |-> entry.id, type |-> "skillDir",
                     path |-> entry.path]>> \o verifyIndexEntries(Tail(entries))
             ELSE verifyIndexEntries(Tail(entries))

\* the ids of the records of every source
validIdsOfAnySource(indexBySource, source) ==
    UNION {{indexBySource[i].entries[j].id : j \in 1..Len(indexBySource[i].entries)} :
              i \in 1..Len(indexBySource)}

\* (indexBySource[source] || []).map((e) => e.id), as a set
validIds(indexBySource, source) ==
    UNION {{indexBySource[i].entries[j].id : j \in 1..Len(indexBySource[i].entries)} :
              i \in {k \in 1..Len(indexBySource) : indexBySource[k].source = source}}

\* pass 3, lines 338-345
RECURSIVE verifyOrphans(_, _)
verifyOrphans(translations, indexBySource) ==
    IF translations = <<>> THEN <<>>
    ELSE LET source == Head(translations).source
             ids == Head(translations).ids
             valid == validIds(indexBySource, source)
             bad == SelectSeq(ids, LAMBDA id : id \notin valid)
         IN  [i \in 1..Len(bad) |->
                 [source |-> source, id |-> bad[i], type |-> "translation"]]
                 \o verifyOrphans(Tail(translations), indexBySource)

\* pass 4 with the type of pass 2
verifyBrokenAsSkillDir(items) ==
    [i \in 1..Len(items) |->
        [source |-> items[i].source, id |-> items[i].id, type |-> "skillDir",
         path |-> CanonicalPathOf(items[i].source, items[i].id)]]

\* pass 4, lines 348-350
verifyBroken(items) ==
    [i \in 1..Len(items) |->
        [source |-> items[i].source, id |-> items[i].id, type |-> "missingSkillMd"]]

verifyTranslations(stats, brokenDirs, registryPath) ==
    TheOne({LET entries == OrElse(idx.entries, <<>>)
                indexBySource == OrElse(idx.bySource, <<>>)
                indexByPath == OrElse(idx.byPath, <<>>)
            IN  [missing |-> verifySources(stats, indexByPath, translations)
                                 \o verifyIndexEntries(entries)
                                 \o verifyBroken(brokenDirs),
                 orphaned |-> verifyOrphans(translations, indexBySource),
                 translations |-> translations,
                 indexEntries |-> entries] :
               <<translations, idx>> \in
                   {<<parseTranslations(registryPath \o <<Name("i18n"), Name("zh-CN.yaml")>>),
                      parseIndex(Append(registryPath, Name("index.yaml")))>>}})

-----------------------------------------------------------------------------
(* updateStatsInFile (src/scripts/sync-stats.js:138-193). In a document the *)
(* words of the count phrases are tokens, and so is every other character. *)

STAR == "*"
\* the words of the phrases, written in pinyin: gong, laizi, chakanquanbu,
\* ge and yuan
GONG == "gong"
LAIZI == "laizi"
CHAKAN == "chakanquanbu"
GE == "ge"
YUAN == "yuan"
SKILLS == "Skills"

Digits == <<"0", "1", "2", "3", "4", "5", "6", "7", "8", "9">>

\* \d
IsDecimal(c) == \E d \in 1..10 : Digits[d] = c
DigitValue(c) == (CHOOSE d \in 1..10 : Digits[d] = c) - 1

\* the captured text compared as it is: a text is equal to no number
withoutParseInt(num) == -1

\* parseInt(num) of a run of decimal digits
RECURSIVE parseInt(_)
parseInt(num) ==
    IF num = <<>> THEN 0
    ELSE 10 * parseInt(SubSeq(num, 1, Len(num) - 1)) + DigitValue(num[Len(num)])

\* `${n}` of a count: its decimal digits
RECURSIVE String(_)
String(n) ==
    IF n < 10 THEN <<Digits[n + 1]>>
    ELSE Append(String(n \div 10), Digits[(n % 10) + 1])

\* the four patterns of lines 148, 158, 168 and 178: the tokens before the
\* number, whether \s* stands between them and the number, the tokens after
\* ge, whether \s* stands before them, and the count a pattern is about
skillCountPattern ==
    [before |-> <<GONG>>, space |-> TRUE, after |-> <<SKILLS>>, spaceAfter |-> TRUE,
     count |-> "total"]
sourceCountPattern ==
    [before |-> <<LAIZI>>, space |-> TRUE, after |-> <<YUAN>>, spaceAfter |-> FALSE,
     count |-> "source"]
boldCountPattern ==
    [before |-> <<STAR, STAR>>, space |-> FALSE, after |-> <<SKILLS, STAR, STAR>>,
     spaceAfter |-> TRUE, count |-> "total"]
viewAllPattern ==
    [before |-> <<CHAKAN>>, space |-> TRUE, after |-> <<SKILLS>>, spaceAfter |-> TRUE,
     count |-> "total"]

\* the text that replaces a stale match, lines 152, 162, 172 and 182
replacement(pattern, n) ==
    IF pattern.before = <<STAR, STAR>>
    THEN <<STAR, STAR>> \o String(n) \o <<SP, GE, SP, SKILLS, STAR, STAR>>
    ELSE IF pattern.after = <<YUAN>>
    THEN pattern.before \o <<SP>> \o String(n) \o <<SP, GE, YUAN>>
    ELSE pattern.before \o <<SP>> \o String(n) \o <<SP, GE, SP, SKILLS>>

\* the tokens t stand in s from place i on
HasAt(s, i, t) == i + Len(t) - 1 <= Len(s) /\ SubSeq(s, i, i + Len(t) - 1) = t

\* the first place at or after i that holds no decimal digit
SkipDigits(s, i) ==
    Min({j \in i..(Len(s) + 1) : j = Len(s) + 1 \/ ~IsDecimal(s[j])})

\* a pattern tried at place i of the text: None, or the captured number and
\* the last place of the match
patternMatchAt(s, i, pattern) ==
    IF ~HasAt(s, i, pattern.before) THEN None
    ELSE LET a == i + Len(pattern.before)
             n1 == IF pattern.space THEN SkipSpace(s, a) ELSE a
             n2 == SkipDigits(s, n1)
             g == SkipSpace(s, n2)
             t == IF pattern.spaceAfter THEN SkipSpace(s, g + 1) ELSE g + 1
         IN  IF n2 > n1 /\ HasAt(s, g, <<GE>>) /\ HasAt(s, t, pattern.after)
             THEN Some([num |-> SubSeq(s, n1, n2 - 1), last |-> t + Len(pattern.after) - 1])
             ELSE None


\* content.replace(pattern, callback) with the g flag, from place i on: the
\* matches are taken from left to right and do not overlap; the callback
\* returns the phrase with n for a match whose number is not n, and the match
\* itself otherwise
RECURSIVE replaceFrom(_, _, _, _)
replaceFrom(s, i, pattern, n) ==
    IF i > Len(s) THEN <<>>
    ELSE TheOne({IF m = None THEN <<s[i]>> \o replaceFrom(s, i + 1, pattern, n)
                 ELSE (IF parseInt(m[1].num) # n THEN replacement(pattern, n)
                       ELSE SubSeq(s, i, m[1].last))
                          \o replaceFrom(s, m[1].last + 1, pattern, n) :
                    m \in {patternMatchAt(s, i, pattern)}})

\* modified set by every match, whatever its number
modifiedOnAnyMatch(s, i, pattern, n) ==
    \E j \in i..Len(s) : patternMatchAt(s, j, pattern) # None

\* whether the callback sets modified during that replace call
RECURSIVE modifiedFrom(_, _, _, _)
modifiedFrom(s, i, pattern, n) ==
    IF i > Len(s) THEN FALSE
    ELSE \E m \in {patternMatchAt(s, i, pattern)} :
             IF m = None THEN modifiedFrom(s, i + 1, pattern, n)
             ELSE parseInt(m[1].num) # n \/ modifiedFrom(s, m[1].last + 1, pattern, n)

\* every phrase compared with the count of skills and written with it
replaceCountsAllTotal(s, pattern, total, source) ==
    [content |-> replaceFrom(s, 1, pattern, total),
     modified |-> modifiedFrom(s, 1, pattern, total)]

\* one of the four replace calls of lines 149-185
replaceCounts(s, pattern, total, source) ==
    LET n == IF pattern.count = "total" THEN total ELSE source
    IN  [content |-> replaceFrom(s, 1, pattern, n),
         modified |-> modifiedFrom(s, 1, pattern, n)]

\* one replace call on the content so far: content = content.replace(...),
\* and modified is set or left as it is
replaceStep(r, pattern, total, source) ==
    [content |-> replaceCounts(r.content, pattern, total, source).content,
     modified |-> r.modified \/ replaceCounts(r.content, pattern, total, source).modified]

\* lines 145-185: the content after the four replace calls and the flag
rewriteCounts(content, total, source) ==
    LET r0 == {[content |-> content, modified |-> FALSE]}
        r1 == {replaceStep(r, skillCountPattern, total, source) : r \in r0}
        r2 == {replaceStep(r, sourceCountPattern, total, source) : r \in r1}
        r3 == {replaceStep(r, boldCountPattern, total, source) : r \in r2}
        r4 == {replaceStep(r, viewAllPattern, total, source) : r \in r3}
    IN  TheOne(r4)

\* a missing file written with nothing in it instead of reported
updateStatsInFileCreating(filePath, total, source) ==
    IF ~existsSync(filePath)
    THEN [returned |-> TRUE, wrote |-> TRUE, warned |-> FALSE, content |-> <<>>]
    ELSE TheOne({[returned |-> r.modified, wrote |-> r.modified, warned |-> FALSE,
                  content |-> r.content] :
                    r \in {rewriteCounts(readFileSync(filePath), total, source)}})

\* updateStatsInFile: what it returns, whether it logs the warning of line 140,
\* and the content it writes when it writes
updateStatsInFile(filePath, total, source) ==
    IF ~existsSync(filePath)
    THEN [returned |-> FALSE, wrote |-> FALSE, warned |-> TRUE, content |-> <<>>]
    ELSE TheOne({[returned |-> r.modified, wrote |-> r.modified, warned |-> FALSE,
                  content |-> r.content] :
                    r \in {rewriteCounts(readFileSync(filePath), total, source)}})

-----------------------------------------------------------------------------
(* main (src/scripts/sync-stats.js:358-459), one action for each of its steps. *)

\* the sum with = for +=: the count of the last source alone
countSkillsLastOnly(stats) ==
    IF stats = <<>> THEN 0 ELSE Len(stats[Len(stats)].skills)

\* the sum of lines 370-379
RECURSIVE countSkills(_)
countSkills(stats) ==
    IF stats = <<>> THEN 0 ELSE Len(Head(stats).skills) + countSkills(Tail(stats))

\* Object.keys(statsBySource).length, line 368
countSources(stats) == Len(stats)

\* --fix taken as given on every run
shouldFixAlways == TRUE

\* lines 359-361; checkI18n is read nowhere in main
shouldFix == "--fix" \in args
checkI18n == "--i18n" \in args \/ "--all" \in args

\* line 366
CollectStats ==
    /\ pc = "start"
    /\ \E r \in {collectStats} :
           IF r.raised
           THEN /\ pc' = "crashed"
                /\ exitCode' = Some(1)
                /\ UNCHANGED <<statsBySource, broken>>
           ELSE /\ pc' = "collected"
                /\ statsBySource' = r.statsBySource
                /\ broken' = r.broken
                /\ UNCHANGED exitCode
    /\ UNCHANGED <<run, dirs, files, markerText, indexText, i18nText, totalCount,
                   sourceCount, verified, prev, meta, index,
                   args, docs, updated, written,
                   warnings>>

\* lines 367-383
CountTotals ==
    /\ pc = "collected"
    /\ sourceCount' = countSources(statsBySource)
    /\ totalCount' = countSkills(statsBySource)
    /\ pc' = "counted"
    /\ UNCHANGED <<run, dirs, files, markerText, indexText, i18nText, statsBySource,
                   broken, verified, exitCode, prev, meta, index,
                   args, docs, updated, written,
                   warnings>>

\* the check made to repair what it finds: a translation manifest that holds
\* an orphan is written anew without its entries
VerifyRegistryAndRepair ==
    /\ pc = "counted"
    /\ \E v \in {IF existsSync(cliRegistryPath)
                 THEN Some(verifyTranslations(statsBySource, broken, cliRegistryPath))
                 ELSE None} :
           /\ verified' = v
           /\ i18nText' = IF v # None /\ v[1].orphaned # <<>> THEN <<>> ELSE i18nText
    /\ pc' = "reported"
    /\ UNCHANGED <<run, dirs, files, markerText, indexText, statsBySource,
                   broken, totalCount, sourceCount, exitCode, prev, meta, index,
                   args, docs, updated, written, warnings>>

\* the check made only where the index manifest is there
VerifyRegistryNeedsIndex ==
    /\ pc = "counted"
    /\ \E v \in {IF existsSync(indexPath)
                 THEN Some(verifyTranslations(statsBySource, broken, cliRegistryPath))
                 ELSE None} :
           verified' = v
    /\ pc' = "reported"
    /\ UNCHANGED <<run, dirs, files, markerText, indexText, i18nText, statsBySource,
                   broken, totalCount, sourceCount, exitCode, prev, meta, index,
                   args, docs, updated, written, warnings>>

\* lines 386-435
VerifyRegistry ==
    /\ pc = "counted"
    /\ \E v \in {IF existsSync(cliRegistryPath)
                 THEN Some(verifyTranslations(statsBySource, broken, cliRegistryPath))
                 ELSE None} :
           verified' = v
    /\ pc' = "reported"
    /\ UNCHANGED <<run, dirs, files, markerText, indexText, i18nText, statsBySource,
                   broken, totalCount, sourceCount, exitCode, prev, meta, index,
                   args, docs, updated, written,
                   warnings>>

\* the exit status made to tell of findings: 1 when something is missing or
\* orphaned
ExitByFindings ==
    /\ pc = "reported"
    /\ ~shouldFix
    /\ pc' = "done"
    /\ exitCode' = IF verified # None
                       /\ (verified[1].missing # <<>> \/ verified[1].orphaned # <<>>)
                    THEN Some(1) ELSE Some(0)
    /\ UNCHANGED <<run, dirs, files, markerText, indexText, i18nText, statsBySource,
                   broken, totalCount, sourceCount, verified, prev, meta, index,
                   args, docs, updated, written, warnings>>

\* lines 437-440: without --fix main returns and the process exits
ReturnWithoutFix ==
    /\ pc = "reported"
    /\ ~shouldFix
    /\ pc' = "done"
    /\ exitCode' = Some(0)
    /\ UNCHANGED <<run, dirs, files, markerText, indexText, i18nText, statsBySource,
                   broken, totalCount, sourceCount, verified, prev, meta, index,
                   args, docs, updated, written,
                   warnings>>

\* the list of line 445 turned round: docs/skills.md first
UpdateDocsSkillsFirst ==
    /\ pc = "reported"
    /\ shouldFix
    /\ \E r1 \in {updateStatsInFile(SKILLS_MD_PATH, totalCount, sourceCount)},
          r2 \in {updateStatsInFile(README_PATH, totalCount, sourceCount)} :
           /\ docs' = [q \in DOMAIN docs |->
                          IF q = SKILLS_MD_PATH /\ r1.wrote THEN r1.content
                          ELSE IF q = README_PATH /\ r2.wrote THEN r2.content
                          ELSE docs[q]]
           /\ updated' = <<r1.returned, r2.returned>>
           /\ written' = (IF r1.wrote THEN <<SKILLS_MD_PATH>> ELSE <<>>)
                             \o (IF r2.wrote THEN <<README_PATH>> ELSE <<>>)
           /\ warnings' = (IF r1.warned THEN <<SKILLS_MD_PATH>> ELSE <<>>)
                              \o (IF r2.warned THEN <<README_PATH>> ELSE <<>>)
    /\ pc' = "done"
    /\ exitCode' = Some(0)
    /\ UNCHANGED <<run, dirs, files, markerText, indexText, i18nText, statsBySource,
                   broken, totalCount, sourceCount, verified, prev, meta, index, args>>

\* lines 442-458: with --fix both documents are rewritten, README.md first
UpdateDocs ==
    /\ pc = "reported"
    /\ shouldFix
    /\ \E r1 \in {updateStatsInFile(README_PATH, totalCount, sourceCount)},
          r2 \in {updateStatsInFile(SKILLS_MD_PATH, totalCount, sourceCount)} :
           /\ docs' = [q \in DOMAIN docs |->
                          IF q = README_PATH /\ r1.wrote THEN r1.content
                          ELSE IF q = SKILLS_MD_PATH /\ r2.wrote THEN r2.content
                          ELSE docs[q]]
           /\ updated' = <<r1.returned, r2.returned>>
           /\ written' = (IF r1.wrote THEN <<README_PATH>> ELSE <<>>)
                             \o (IF r2.wrote THEN <<SKILLS_MD_PATH>> ELSE <<>>)
           /\ warnings' = (IF r1.warned THEN <<README_PATH>> ELSE <<>>)
                              \o (IF r2.warned THEN <<SKILLS_MD_PATH>> ELSE <<>>)
    /\ pc' = "done"
    /\ exitCode' = Some(0)
    /\ UNCHANGED <<run, dirs, files, markerText, indexText, i18nText, statsBySource,
                   broken, totalCount, sourceCount, verified, prev, meta, index, args>>

\* what a finished run reported
Outcome ==
    [sourceIds |-> [i \in 1..Len(statsBySource) |->
                       [source |-> statsBySource[i].source,
                        ids |-> [j \in 1..Len(statsBySource[i].skills) |->
                                    statsBySource[i].skills[j].id]]],
     totalCount |-> totalCount,
     sourceCount |-> sourceCount,
     missing |-> IF verified = None THEN None ELSE Some(verified[1].missing),
     orphaned |-> IF verified = None THEN None ELSE Some(verified[1].orphaned),
     exitCode |-> exitCode]

-----------------------------------------------------------------------------
(* The inputs of a run: the skills tree, the marker files and the registry. *)

\* what a tree may hold below the skills directory: files, and directories
\* that may be empty (skills/@source/<skill-id>/SKILL.md is the convention)
TreeNodes ==
    {[path |-> <<NsA, IdX, SKILL_MD>>, dir |-> FALSE],
     [path |-> <<NsA, IdY, SKILL_MD>>, dir |-> FALSE],
     [path |-> <<NsB, IdX, SKILL_MD>>, dir |-> FALSE],
     [path |-> <<NsEmpty, IdX, SKILL_MD>>, dir |-> FALSE],
     [path |-> <<Lib, IdX, SKILL_MD>>, dir |-> FALSE],
     [path |-> <<NsA, SKILL_MD>>, dir |-> FALSE],
     [path |-> <<SKILL_MD>>, dir |-> FALSE],
     [path |-> <<NsA, IdX, Sub, SKILL_MD>>, dir |-> FALSE],
     [path |-> <<NsB, IdY, Doc>>, dir |-> FALSE],
     [path |-> <<NsA, Doc>>, dir |-> FALSE],
     [path |-> <<NsFile>>, dir |-> FALSE],
     [path |-> <<NsB>>, dir |-> TRUE],
     [path |-> <<NsB, IdX>>, dir |-> TRUE]}

\* the directories and files of a tree that holds the nodes S
TreeOf(S) ==
    LET fs == {SKILLS_DIR \o c.path : c \in {n \in S : ~n.dir}}
        ds == {SKILLS_DIR \o c.path : c \in {n \in S : n.dir}}
    IN  [files |-> fs,
         dirs |-> ds \cup {SKILLS_DIR} \cup UNION {Ancestors(p) : p \in fs \cup ds}]

\* the trees of the model, and the case of no skills directory at all
Trees ==
    {TreeOf(S) : S \in {T \in SUBSET TreeNodes : Cardinality(T) <= MaxFiles}}
        \cup {[files |-> {}, dirs |-> Ancestors(SKILLS_DIR)]}

\* marker files: plain text, a block with both fields, a block with one
MarkerTexts ==
    {<<"c">>,
     joinLines(<< <<DASHES>>, <<"name:", SP, "y">>, <<"description:", SP, "b">>,
                  <<DASHES>>, <<"c">> >>),
     joinLines(<< <<DASHES>>, <<"description:", SP, DQ, "x", DQ>>, <<DASHES>> >>)}

\* an index manifest: @a/x under its own id, @b/x under the id z, and a
\* record whose directory is @a/s
IndexSample ==
    joinLines(<< <<"-", SP, "id:", SP, "x">>,
                 <<SP, SP, "source:", SP, "a">>,
                 <<SP, SP, "path:", SP, DQ, AT, "a", SLASH, "x", DQ>>,
                 <<"-", SP, "id:", SP, "z">>,
                 <<SP, SP, "source:", SP, "b">>,
                 <<SP, SP, "path:", SP, AT, "b", SLASH, "x">>,
                 <<"-", SP, "id:", SP, "s">>,
                 <<SP, SP, "source:", SP, "a">>,
                 <<SP, SP, "path:", SP, AT, "a", SLASH, "s">> >>)

\* a translation manifest: a/x, a/y and b/x
I18nSample ==
    joinLines(<< <<"s", "k", "i", "l", "l", "s", ":">>,
                 <<SP, SP, "a", ":">>,
                 <<SP, SP, SP, SP, "x", ":">>,
                 <<SP, SP, SP, SP, "y", ":">>,
                 <<SP, SP, "b", ":">>,
                 <<SP, SP, SP, SP, "x", ":">> >>)

\* the three lines of a record of the manifest
RecordLines(id, source, path) ==
    << <<"-", SP, "id:", SP>> \o id,
       <<SP, SP, "source:", SP>> \o source,
       <<SP, SP, "path:", SP>> \o path >>

\* the manifest that holds the records rs one after the other
RECURSIVE ManifestOf(_)
ManifestOf(rs) ==
    IF rs = <<>> THEN <<>>
    ELSE RecordLines(Head(rs).id, Head(rs).source, Head(rs).path) \o ManifestOf(Tail(rs))

\* the registry of the sibling project: absent, complete, or without its
\* translation manifest
Registries ==
    {[files |-> {}, dirs |-> {}],
     [files |-> {indexPath, i18nPath},
      dirs |-> Ancestors(indexPath) \cup Ancestors(i18nPath)],
     [files |-> {indexPath}, dirs |-> Ancestors(indexPath)]}

\* a run that only reports, and no documents to rewrite
NoDocs ==
    /\ args = {}
    /\ docs = <<>>
    /\ updated = <<>>
    /\ written = <<>>
    /\ warnings = <<>>

NoOutputs ==
    /\ statsBySource = <<>>
    /\ broken = <<>>
    /\ totalCount = 0
    /\ sourceCount = 0
    /\ verified = None
    /\ exitCode = None

Init ==
    /\ pc = "start"
    /\ run = 1
    /\ \E tree \in Trees, reg \in Registries :
           /\ dirs = tree.dirs \cup reg.dirs
           /\ files = tree.files \cup reg.files
    /\ markerText \in MarkerTexts
    /\ indexText = IndexSample
    /\ i18nText = I18nSample
    /\ NoOutputs
    /\ prev = None
    /\ meta = None
    /\ index = None
    /\ NoDocs

\* between two runs the text of the marker files is edited; the tree and the
\* manifests stay as they are
EditMarkerFiles ==
    /\ pc = "done"
    /\ run = 1
    /\ \E t \in MarkerTexts \ {markerText} : markerText' = t
    /\ prev' = Some(Outcome)
    /\ run' = 2
    /\ pc' = "start"
    /\ statsBySource' = <<>>
    /\ broken' = <<>>
    /\ totalCount' = 0
    /\ sourceCount' = 0
    /\ verified' = None
    /\ exitCode' = None
    /\ UNCHANGED <<dirs, files, indexText, i18nText, meta, index,
                   args, docs, updated, written,
                   warnings>>

Next ==
    \/ CollectStats
    \/ CountTotals
    \/ VerifyRegistry
    \/ ReturnWithoutFix
    \/ EditMarkerFiles

Spec == Init /\ [][Next]_vars

-----------------------------------------------------------------------------
(* The reconciliation over registries of many shapes. *)

\* skills @a/x, @b/x and @a/y, and the directory @a/y without its marker file
VerifyNodes ==
    {[path |-> <<NsA, IdX, SKILL_MD>>, dir |-> FALSE],
     [path |-> <<NsB, IdX, SKILL_MD>>, dir |-> FALSE],
     [path |-> <<NsA, IdY, SKILL_MD>>, dir |-> FALSE],
     [path |-> <<NsA, IdY>>, dir |-> TRUE]}

\* index records: @a/x under its own id, under the id z, and under the source
\* b; @b/x; @a/y
VerifyRecordKinds ==
    {[id |-> <<"x">>, source |-> <<"a">>, path |-> <<AT, "a", SLASH, "x">>],
     [id |-> <<"z">>, source |-> <<"a">>, path |-> <<AT, "a", SLASH, "x">>],
     [id |-> <<"x">>, source |-> <<"b">>, path |-> <<AT, "a", SLASH, "x">>],
     [id |-> <<"x">>, source |-> <<"b">>, path |-> <<AT, "b", SLASH, "x">>],
     [id |-> <<"y">>, source |-> <<"a">>, path |-> <<AT, "a", SLASH, "y">>]}

\* translation manifests: a/x, a/y and b/x; a/z; b/x
I18nTexts ==
    {I18nSample,
     joinLines(<< <<SP, SP, "a", ":">>, <<SP, SP, SP, SP, "z", ":">> >>),
     joinLines(<< <<SP, SP, "b", ":">>, <<SP, SP, SP, SP, "x", ":">> >>)}

\* the registry with both manifests, without its translation manifest, and
\* without its index
VerifyRegistries ==
    {[files |-> {indexPath, i18nPath},
      dirs |-> Ancestors(indexPath) \cup Ancestors(i18nPath)],
     [files |-> {indexPath}, dirs |-> Ancestors(indexPath)],
     [files |-> {i18nPath}, dirs |-> Ancestors(i18nPath)]}

InitVerify ==
    /\ pc = "start"
    /\ run = 1
    /\ \E S \in SUBSET VerifyNodes, reg \in VerifyRegistries :
           /\ dirs = TreeOf(S).dirs \cup reg.dirs
           /\ files = TreeOf(S).files \cup reg.files
           /\ i18nText \in (IF i18nPath \in reg.files THEN I18nTexts ELSE {<<>>})
           /\ indexText \in (IF indexPath \in reg.files
                              THEN {joinLines(ManifestOf(rs)) :
                                       rs \in SeqUpTo(VerifyRecordKinds, MaxRecords)}
                              ELSE {<<>>})
    /\ markerText = <<"c">>
    /\ NoOutputs
    /\ prev = None
    /\ meta = None
    /\ index = None
    /\ NoDocs

NextVerify ==
    \/ CollectStats
    \/ CountTotals
    \/ VerifyRegistry
    \/ ReturnWithoutFix

SpecVerify == InitVerify /\ [][NextVerify]_vars

\* between two runs the manifest the registry lacks is created with nothing
\* in it; the tree and the other manifest stay as they are
CreateEmptyManifests ==
    /\ pc = "done"
    /\ run = 1
    /\ indexPath \notin files \/ i18nPath \notin files
    /\ files' = files \cup {indexPath, i18nPath}
    /\ dirs' = dirs \cup Ancestors(indexPath) \cup Ancestors(i18nPath)
    /\ indexText' = IF indexPath \in files THEN indexText ELSE <<>>
    /\ i18nText' = IF i18nPath \in files THEN i18nText ELSE <<>>
    /\ prev' = verified
    /\ run' = 2
    /\ pc' = "start"
    /\ statsBySource' = <<>>
    /\ broken' = <<>>
    /\ totalCount' = 0
    /\ sourceCount' = 0
    /\ verified' = None
    /\ exitCode' = None
    /\ UNCHANGED <<markerText, meta, index, args, docs, updated, written, warnings>>

NextMissing ==
    \/ CollectStats
    \/ CountTotals
    \/ VerifyRegistry
    \/ ReturnWithoutFix
    \/ CreateEmptyManifests

SpecMissing == InitVerify /\ [][NextMissing]_vars

-----------------------------------------------------------------------------
(* The translation parsing on its own: a manifest of any lines, read by *)
(* verifyTranslations beside an empty index and an empty tree. *)

\* source headers, skill lines, a top-level key, a line indented by three
\* spaces and a header with a value
I18nLineKinds ==
    {<<SP, SP, "a", ":">>,
     <<SP, SP, "b", ":">>,
     <<SP, SP, SP, SP, "x", ":">>,
     <<SP, SP, SP, SP, "y", ":">>,
     <<"s", "k", "i", "l", "l", "s", ":">>,
     <<SP, SP, SP, "x", ":">>,
     <<SP, SP, "a", ":", SP, "x">>}

InitI18n ==
    /\ pc = "start"
    /\ run = 1
    /\ dirs = Ancestors(indexPath) \cup Ancestors(i18nPath)
    /\ files = {indexPath, i18nPath}
    /\ i18nText \in {joinLines(ls) : ls \in SeqUpTo(I18nLineKinds, MaxI18nLines)}
    /\ indexText = <<>>
    /\ markerText = <<"c">>
    /\ NoOutputs
    /\ prev = None
    /\ meta = None
    /\ index = None
    /\ NoDocs

SpecI18n == InitI18n /\ [][NextVerify]_vars

-----------------------------------------------------------------------------
(* Whole runs of main over command lines and documents. *)

RunNodes ==
    {[path |-> <<NsA, IdX, SKILL_MD>>, dir |-> FALSE],
     [path |-> <<NsA, IdY, SKILL_MD>>, dir |-> FALSE],
     [path |-> <<NsB, IdX, SKILL_MD>>, dir |-> FALSE]}

\* documents: both phrases in their usual form; the bold and the view-all
\* phrase; a phrase written without spaces; no phrase at all
DocTexts ==
    {<<GONG, SP, "2", SP, GE, SP, SKILLS, NL, LAIZI, SP, "1", SP, GE, YUAN>>,
     <<STAR, STAR, "0", SP, GE, SP, SKILLS, STAR, STAR, "a",
       CHAKAN, SP, "3", SP, GE, SP, SKILLS>>,
     <<GONG, "1", GE, SKILLS>>,
     <<"a">>}

\* the two documents main hands to updateStatsInFile, line 445
TargetDocs == {README_PATH, SKILLS_MD_PATH}

Flags == {"--fix", "--i18n", "--all"}

InitRun ==
    /\ pc = "start"
    /\ run = 1
    /\ \E S \in SUBSET RunNodes, reg \in Registries,
          D \in SUBSET {README_PATH, SKILLS_MD_PATH} :
           /\ dirs = TreeOf(S).dirs \cup reg.dirs \cup UNION {Ancestors(d) : d \in D}
           /\ files = TreeOf(S).files \cup reg.files \cup D
           /\ docs \in [D -> DocTexts]
    /\ args \in SUBSET Flags
    /\ markerText = <<"c">>
    /\ indexText = IndexSample
    /\ i18nText = I18nSample
    /\ NoOutputs
    /\ prev = None
    /\ meta = None
    /\ index = None
    /\ updated = <<>>
    /\ written = <<>>
    /\ warnings = <<>>

NextRun ==
    \/ CollectStats
    \/ CountTotals
    \/ VerifyRegistry
    \/ ReturnWithoutFix
    \/ UpdateDocs

SpecRun == InitRun /\ [][NextRun]_vars

\* runs that are to come to their end: two marker files, an index manifest of
\* one record (@a/x), a translation manifest of one pair (b/x), and documents
\* with and without the phrases
InitLive ==
    /\ pc = "start"
    /\ run = 1
    /\ \E S \in SUBSET {[path |-> <<NsA, IdX, SKILL_MD>>, dir |-> FALSE],
                         [path |-> <<NsB, IdX, SKILL_MD>>, dir |-> FALSE]},
          reg \in Registries, D \in SUBSET TargetDocs :
           /\ dirs = TreeOf(S).dirs \cup reg.dirs \cup UNION {Ancestors(d) : d \in D}
           /\ files = TreeOf(S).files \cup reg.files \cup D
           /\ docs \in [D -> {<<GONG, SP, "2", SP, GE, SP, SKILLS, NL,
                                 LAIZI, SP, "1", SP, GE, YUAN>>,
                               <<"a">>}]
    /\ args \in SUBSET Flags
    /\ markerText = <<"c">>
    /\ indexText = joinLines(RecordLines(<<"x">>, <<"a">>, <<AT, "a", SLASH, "x">>))
    /\ i18nText = joinLines(<< <<SP, SP, "b", ":">>, <<SP, SP, SP, SP, "x", ":">> >>)
    /\ NoOutputs
    /\ prev = None
    /\ meta = None
    /\ index = None
    /\ updated = <<>>
    /\ written = <<>>
    /\ warnings = <<>>

\* main is one sequence of synchronous calls: a run that can take a step takes it
SpecRunLive == InitLive /\ [][NextRun]_vars /\ WF_vars(NextRun)

-----------------------------------------------------------------------------
(* The rewrite of one document on its own, called twice with the same counts. *)

\* what a document is put together from: the four phrases, written as the
\* script writes them or otherwise, and parts of phrases
DocPieces ==
    {<<GONG, SP, "2", SP, GE, SP, SKILLS>>,
     <<GONG, "0", "2", GE, NL, SKILLS>>,
     <<LAIZI, SP, "1", SP, GE, YUAN>>,
     <<STAR, STAR, "1", "0", SP, GE, SP, SKILLS, STAR, STAR>>,
     <<"2", SP, GE, SP, SKILLS, STAR, STAR>>,
     <<CHAKAN, SP, "3", SP, GE, SP, SKILLS>>,
     <<STAR>>,
     <<"5">>}

RECURSIVE Concat(_)
Concat(ps) == IF ps = <<>> THEN <<>> ELSE Head(ps) \o Concat(Tail(ps))

\* the counts of a scan, of skills and of sources: one that some phrases of
\* the pieces bear already, and one of two digits
DocCounts == {<<2, 1>>, <<10, 2>>}

InitDoc ==
    /\ pc = "start"
    /\ run = 1
    /\ \/ /\ files = {README_PATH}
          /\ docs \in {[d \in {README_PATH} |-> Concat(ps)] :
                           ps \in SeqUpTo(DocPieces, MaxPieces)}
       \/ /\ files = {}
          /\ docs = <<>>
    /\ dirs = Ancestors(README_PATH)
    /\ \E c \in DocCounts : totalCount = c[1] /\ sourceCount = c[2]
    /\ args = {"--fix"}
    /\ markerText = <<>>
    /\ indexText = <<>>
    /\ i18nText = <<>>
    /\ statsBySource = <<>>
    /\ broken = <<>>
    /\ verified = None
    /\ exitCode = None
    /\ prev = None
    /\ meta = None
    /\ index = None
    /\ updated = <<>>
    /\ written = <<>>
    /\ warnings = <<>>

\* one call updateStatsInFile(README_PATH, totalCount, sourceCount)
UpdateStatsInFile ==
    /\ pc \in {"start", "once"}
    /\ \E r \in {updateStatsInFile(README_PATH, totalCount, sourceCount)} :
           /\ docs' = IF r.wrote THEN [docs EXCEPT ![README_PATH] = r.content] ELSE docs
           /\ written' = IF r.wrote THEN Append(written, README_PATH) ELSE written
           /\ updated' = Append(updated, r.returned)
           /\ warnings' = IF r.warned THEN Append(warnings, README_PATH) ELSE warnings
    /\ prev' = Some([docs |-> docs, written |-> written])
    /\ pc' = IF pc = "start" THEN "once" ELSE "done"
    /\ UNCHANGED <<run, dirs, files, markerText, indexText, i18nText, statsBySource,
                   broken, totalCount, sourceCount, verified, exitCode, meta, index, args>>

NextDoc == UpdateStatsInFile

SpecDoc == InitDoc /\ [][NextDoc]_vars

-----------------------------------------------------------------------------
(* The metadata extraction on its own: one marker file of any text. *)

MetaLines ==
    {<<DASHES>>,
     <<"name:", SP, "a">>,
     <<"name:", SP, DQ, "a", DQ>>,
     <<"name:">>,
     <<"description:", SP, "b">>,
     <<"description:", SP, SQ, "b", SQ>>,
     <<"description:">>,
     <<"c">>}

MetaFile == SKILLS_DIR \o <<NsA, IdX, SKILL_MD>>

InitMeta ==
    /\ pc = "start"
    /\ run = 1
    /\ files = {MetaFile}
    /\ dirs = Ancestors(MetaFile)
    /\ markerText \in {joinLines(ls) : ls \in SeqUpTo(MetaLines, MaxMetaLines)}
    /\ indexText = <<>>
    /\ i18nText = <<>>
    /\ NoOutputs
    /\ prev = None
    /\ meta = None
    /\ index = None
    /\ NoDocs

ParseSkillMetadata ==
    /\ pc = "start"
    /\ meta' = Some(parseSkillMetadata(MetaFile))
    /\ pc' = "done"
    /\ UNCHANGED <<run, dirs, files, markerText, indexText, i18nText, statsBySource,
                   broken, totalCount, sourceCount, verified, exitCode, prev, index,
                   args, docs, updated, written,
                   warnings>>

NextMeta == ParseSkillMetadata

SpecMeta == InitMeta /\ [][NextMeta]_vars

-----------------------------------------------------------------------------
(* The index parsing on its own: one manifest of any lines. *)

IndexLineKinds ==
    {<<"-", SP, "id:", SP, "x">>,
     <<SP, SP, "-", SP, "id:", SP, DQ, "y", DQ>>,
     <<"-", SP, "id:">>,
     <<SP, SP, "source:", SP, "a">>,
     <<SP, SP, "source:", SP, DQ, DQ>>,
     <<SP, SP, "path:", SP, AT, "a", SLASH, "x">>,
     <<SP, SP, "path:", SP, SQ, AT, "a", SLASH, "y", SQ>>,
     <<SP, SP, "name:", SP, "x">>}

\* well-formed records: two ids, two sources and two paths in every combination
IndexRecordKinds ==
    [id : {<<"x">>, <<"y">>},
     source : {<<"a">>, <<"b">>},
     path : {<<AT, "a", SLASH, "x">>, <<AT, "b", SLASH, "x">>}]

InitIndex ==
    /\ pc = "start"
    /\ run = 1
    /\ files = {indexPath}
    /\ dirs = Ancestors(indexPath)
    /\ markerText = <<>>
    /\ indexText \in {joinLines(ls) : ls \in SeqUpTo(IndexLineKinds, MaxIndexLines)}
                     \cup {joinLines(ManifestOf(rs)) :
                               rs \in SeqUpTo(IndexRecordKinds, MaxRecords)}
    /\ i18nText = <<>>
    /\ NoOutputs
    /\ prev = None
    /\ meta = None
    /\ index = None
    /\ NoDocs

ParseIndex ==
    /\ pc = "start"
    /\ index' = Some(parseIndex(indexPath))
    /\ pc' = "done"
    /\ UNCHANGED <<run, dirs, files, markerText, indexText, i18nText, statsBySource,
                   broken, totalCount, sourceCount, verified, exitCode, prev, meta,
                   args, docs, updated, written,
                   warnings>>

NextIndex == ParseIndex

SpecIndex == InitIndex /\ [][NextIndex]_vars

-----------------------------------------------------------------------------
(* What the claims speak of, read off the tree itself. *)

Depth(p) == Len(p) - Len(SKILLS_DIR)
UnderSkills(p) == IsPrefix(SKILLS_DIR, p) /\ Depth(p) >= 1
NsOf(p) == p[Len(SKILLS_DIR) + 1]

\* the marker files at exactly root/@<source>/<id>/SKILL.md
MarkerFiles ==
    {p \in files : /\ UnderSkills(p)
                   /\ Depth(p) = 3
                   /\ basename(p) = SKILL_MD
                   /\ startsWith(NsOf(p), AT)}

\* the second-level directories below an '@' directory
CandidateDirs ==
    {d \in dirs : UnderSkills(d) /\ Depth(d) = 2 /\ startsWith(NsOf(d), AT)}

HasMarker(d) == Append(d, SKILL_MD) \in files

\* the entries of statsBySource, as places <<i, j>> of the list
EntryPlaces ==
    {ij \in (1..Len(statsBySource)) \X (1..Cardinality(files)) :
        ij[2] <= Len(statsBySource[ij[1]].skills)}
EntryAt(ij) == statsBySource[ij[1]].skills[ij[2]]
SourceAt(ij) == statsBySource[ij[1]].source
CountedPaths == {EntryAt(ij).path : ij \in EntryPlaces}
BrokenPlaces == 1..Len(broken)

StatsDone == pc \in {"collected", "counted", "reported", "done"}
CountsDone == pc \in {"counted", "reported", "done"}

-----------------------------------------------------------------------------
(* The claims. *)

\* C1: totalCount is the number of marker files at exactly
\* root/@<source>/<id>/SKILL.md, and sourceCount the number of distinct
\* first-level '@' directories that hold at least one of them.
C1_Counts ==
    CountsDone =>
        /\ totalCount = Cardinality(MarkerFiles)
        /\ sourceCount = Cardinality({NsOf(p) : p \in MarkerFiles})

\* two skills of one source are counted, and a namespace directory that holds
\* only a broken directory adds nothing to sourceCount
C1_Witness ==
    /\ pc = "done"
    /\ totalCount = 2
    /\ sourceCount = 1
    /\ \E i \in BrokenPlaces :
           \A k \in 1..Len(statsBySource) : statsBySource[k].source # broken[i].source

\* C2: the paths counted as skills are exactly the SKILL.md files directly
\* inside a directory directly inside a first-level '@' directory; a file at the
\* first or second level is skipped, and a SKILL.md at another depth is neither
\* counted nor reported as broken.
C2_OnlyTwoLevels ==
    StatsDone =>
        /\ CountedPaths = MarkerFiles
        /\ \A i \in BrokenPlaces :
               /\ broken[i].dir \in dirs
               /\ Depth(broken[i].dir) = 2
               /\ startsWith(NsOf(broken[i].dir), AT)
        /\ \A p \in files :
               (basename(p) = SKILL_MD /\ p \notin MarkerFiles) =>
                   /\ p \notin CountedPaths
                   /\ \A i \in BrokenPlaces : broken[i].dir \notin {p, dirname(p)}

\* a skill is counted while the tree also holds a SKILL.md at another depth
C2_Witness ==
    /\ pc = "done"
    /\ totalCount >= 1
    /\ \E p \in files : UnderSkills(p) /\ basename(p) = SKILL_MD /\ Depth(p) # 3

\* C3: every second-level directory below an '@' directory is in exactly one of
\* the two outputs of the scan, once: an entry if it holds SKILL.md, a broken
\* directory otherwise; a broken directory is counted neither in the
\* statistics of its source nor in totalCount.
C3_Classified ==
    StatsDone =>
        /\ \A d \in CandidateDirs :
               LET entriesAt == {ij \in EntryPlaces : dirname(EntryAt(ij).path) = d}
                   brokenAt == {i \in BrokenPlaces : broken[i].dir = d}
               IN  /\ Cardinality(entriesAt) = (IF HasMarker(d) THEN 1 ELSE 0)
                   /\ Cardinality(brokenAt) = (IF HasMarker(d) THEN 0 ELSE 1)
                   /\ \A ij \in entriesAt :
                          /\ SourceAt(ij) = slice1(NsOf(d))
                          /\ EntryAt(ij).id = basename(d)
                   /\ \A i \in brokenAt :
                          /\ broken[i].source = slice1(NsOf(d))
                          /\ broken[i].id = basename(d)
        /\ \A k \in 1..Len(statsBySource) :
               Len(statsBySource[k].skills) =
                   Cardinality({d \in CandidateDirs :
                       HasMarker(d) /\ slice1(NsOf(d)) = statsBySource[k].source})
        /\ CountsDone =>
               totalCount = Cardinality({d \in CandidateDirs : HasMarker(d)})

\* one namespace directory holds a skill and a broken directory
C3_Witness ==
    /\ pc = "done"
    /\ \E d1, d2 \in CandidateDirs :
           /\ NsOf(d1) = NsOf(d2)
           /\ HasMarker(d1)
           /\ ~HasMarker(d2)
    /\ totalCount >= 1
    /\ broken # <<>>

\* C4: without a skills directory the scan returns no entry and no broken
\* directory and does not raise, both counts are 0 and the run ends with
\* exit status 0.
C4_NoRoot ==
    ~existsSync(SKILLS_DIR) =>
        /\ pc # "crashed"
        /\ statsBySource = <<>>
        /\ broken = <<>>
        /\ totalCount = 0
        /\ sourceCount = 0
        /\ pc = "done" => exitCode = Some(0)

\* a run without a skills directory has ended
C4_Witness ==
    /\ ~existsSync(SKILLS_DIR)
    /\ pc = "done"
    /\ exitCode = Some(0)
    /\ totalCount = 0
    /\ sourceCount = 0

\* C5: every entry and every broken directory of a scan has a non-empty
\* source and a non-empty id.
C5_NonEmpty ==
    StatsDone =>
        /\ \A ij \in EntryPlaces : SourceAt(ij) # <<>> /\ EntryAt(ij).id # <<>>
        /\ \A i \in BrokenPlaces : broken[i].source # <<>> /\ broken[i].id # <<>>

\* C6: two runs over the same tree and the same manifests, with different text
\* in the marker files, report the same sources and ids, the same counts and
\* the same missing and orphaned lists.
C6_ContentIndependent ==
    (run = 2 /\ pc = "done") => prev = Some(Outcome)

\* the second run has ended: it read other marker text than the first, took a
\* name from the frontmatter that is not the id, and reconciled
C6_Witness ==
    /\ run = 2
    /\ pc = "done"
    /\ totalCount >= 2
    /\ \E ij \in EntryPlaces : EntryAt(ij).name # EntryAt(ij).id
    /\ verified # None
    /\ verified[1].missing # <<>>
    /\ verified[1].orphaned # <<>>

-----------------------------------------------------------------------------
(* What the claims on the metadata speak of, read off the lines of the text. *)

MarkerLines == splitLines(markerText)
DirName == basename(dirname(MetaFile))

StartsWithDashes(line) == Len(line) >= 1 /\ line[1] = DASHES
IsKeyLine(line, key) == Len(line) >= 1 /\ line[1] = key

\* the text begins with a '---' line and a later line begins with '---'
BeginsWithBlock ==
    /\ Len(MarkerLines) >= 2
    /\ MarkerLines[1] = <<DASHES>>
    /\ \E c \in 2..Len(MarkerLines) : StartsWithDashes(MarkerLines[c])

\* a block with a body: the closing line comes after at least one line
BlockPresent ==
    /\ Len(MarkerLines) >= 3
    /\ MarkerLines[1] = <<DASHES>>
    /\ \E c \in 3..Len(MarkerLines) : StartsWithDashes(MarkerLines[c])

\* the lines between the opening line and the first closing line
BlockLines ==
    LET c == Min({k \in 3..Len(MarkerLines) : StartsWithDashes(MarkerLines[k])})
    IN  SubSeq(MarkerLines, 2, c - 1)

HasKeyLine(key) == \E i \in 1..Len(BlockLines) : IsKeyLine(BlockLines[i], key)

\* the first line of the block that begins with the key
KeyLine(key) ==
    BlockLines[Min({i \in 1..Len(BlockLines) : IsKeyLine(BlockLines[i], key)})]

\* the text that follows the key on its line, without the white space around it
ValueOn(line) == trim(Tail(line))

IsInfix(v, s) ==
    \E a \in 0..Len(s) : a + Len(v) <= Len(s) /\ SubSeq(s, a + 1, a + Len(v)) = v

\* v is text of the line of the key, or the fallback where the line has no value
TakenFrom(v, line, fallback) ==
    \/ IsInfix(v, Tail(line))
    \/ (ValueOn(line) = <<>> /\ v = fallback)

\* a value between two quotes of the same kind
IsWrapped(v) == Len(v) >= 3 /\ IsQuote(v[1]) /\ v[Len(v)] = v[1]

MetaDone == pc = "done" /\ meta # None

\* C7: a text that does not begin with a '---' delimited block yields the name
\* of the parent directory and the empty description, without raising.
C7_NoBlockFallback ==
    (pc = "done" /\ ~BeginsWithBlock) =>
        /\ meta # None
        /\ meta[1].name = DirName
        /\ meta[1].description = <<>>

\* a text whose block, with a name and a value, is not at its start
C7_Witness ==
    /\ MetaDone
    /\ ~BeginsWithBlock
    /\ \E i, j, k \in 1..Len(MarkerLines) :
           /\ i < j /\ j < k
           /\ MarkerLines[i] = <<DASHES>>
           /\ IsKeyLine(MarkerLines[j], "name:") /\ ValueOn(MarkerLines[j]) # <<>>
           /\ MarkerLines[k] = <<DASHES>>
    /\ meta[1].name = DirName
    /\ meta[1].description = <<>>

\* C8: in a block each field falls back on its own: without a name: line the
\* name is the directory name and the description is still taken from its
\* line; without a description: line the description is empty and the name is
\* still taken from its line.
C8_IndependentFallback ==
    (MetaDone /\ BlockPresent) =>
        /\ ~HasKeyLine("name:") =>
               /\ meta[1].name = DirName
               /\ HasKeyLine("description:") =>
                      TakenFrom(meta[1].description, KeyLine("description:"), <<>>)
        /\ ~HasKeyLine("description:") =>
               /\ meta[1].description = <<>>
               /\ HasKeyLine("name:") =>
                      TakenFrom(meta[1].name, KeyLine("name:"), DirName)

\* C9: for name: and for description:, a value wrapped in single or double
\* quotes is returned without the quotes.
C9_QuotesStripped ==
    (MetaDone /\ BlockPresent) =>
        /\ (HasKeyLine("name:") /\ IsWrapped(ValueOn(KeyLine("name:")))) =>
               meta[1].name = slice1m1(ValueOn(KeyLine("name:")))
        /\ (HasKeyLine("description:") /\ IsWrapped(ValueOn(KeyLine("description:")))) =>
               meta[1].description = slice1m1(ValueOn(KeyLine("description:")))

-----------------------------------------------------------------------------
(* What the claim on the index speaks of, read off the lines of the manifest. *)

ManifestLines == splitLines(indexText)

\* the field a line stands for, by the key it begins with: a record opens at a
\* "- id:" line
FieldOf(line) ==
    LET t == trimStart(line)
    IN  IF t = <<>> THEN "other"
        ELSE IF t[1] = "-"
        THEN (IF startsWith(trimStart(Tail(t)), "id:") THEN "id" ELSE "other")
        ELSE IF t[1] = "source:" THEN "source"
        ELSE IF t[1] = "path:" THEN "path"
        ELSE "other"

\* the value a line gives to its field
FieldValue(line) ==
    LET t == trimStart(line)
    IN  IF t[1] = "-" THEN unquote(Tail(trimStart(Tail(t)))) ELSE unquote(Tail(t))

RecordStarts == {i \in 1..Len(ManifestLines) : FieldOf(ManifestLines[i]) = "id"}

\* the last line of the record that opens at line i
RecordEnd(i) ==
    Min({j - 1 : j \in {k \in RecordStarts : k > i}} \cup {Len(ManifestLines)})

\* the value the record that opens at line i has for a field: that of the
\* last line of the record that gives it, <<>> when no line does
RecordField(i, field) ==
    LET at == {j \in (i + 1)..RecordEnd(i) : FieldOf(ManifestLines[j]) = field}
    IN  IF at = {} THEN <<>> ELSE FieldValue(ManifestLines[Max(at)])

RecordAt(i) ==
    [id |-> FieldValue(ManifestLines[i]),
     source |-> RecordField(i, "source"),
     path |-> RecordField(i, "path")]

\* the record has an id, a source and a path
Complete(r) == r.id # <<>> /\ r.source # <<>> /\ r.path # <<>>

\* the complete records of the manifest, in the order of the file
RECURSIVE CompleteFrom(_)
CompleteFrom(i) ==
    IF i > Len(ManifestLines) THEN <<>>
    ELSE IF i \in RecordStarts /\ Complete(RecordAt(i))
    THEN <<RecordAt(i)>> \o CompleteFrom(i + 1)
    ELSE CompleteFrom(i + 1)

\* the records of the by-source groups and of the by-path lookup
GroupedRecords(bySource) ==
    UNION {{bySource[i].entries[j] : j \in 1..Len(bySource[i].entries)} :
              i \in 1..Len(bySource)}

\* C10: a record is accepted if and only if an id, a source and a path have
\* been seen for it: one that lacks any of them when the next "- id:" line or
\* the end of the file is reached is in none of entries, bySource and byPath,
\* and a complete record at the end of the file is emitted.
C10_CompleteRecordsOnly ==
    (pc = "done" /\ index # None) =>
        LET entries == index[1].entries[1]
            accepted == {entries[k] : k \in 1..Len(entries)}
        IN  /\ entries = CompleteFrom(1)
            /\ GroupedRecords(index[1].bySource[1]) = accepted
            /\ {index[1].byPath[1][q] : q \in DOMAIN index[1].byPath[1]} \subseteq accepted
            /\ DOMAIN index[1].byPath[1] = {r.path : r \in accepted}

-----------------------------------------------------------------------------
\* C11: when several accepted records share a path, the by-path lookup gives the
\* last of them in the manifest, nothing is raised, and each of the duplicates
\* is still in the record list and in the group of its source.
C11_LastPathWins ==
    (pc = "done" /\ index # None) =>
        LET entries == index[1].entries[1]
            byPath == index[1].byPath[1]
            bySource == index[1].bySource[1]
        IN  /\ DOMAIN byPath = {entries[k].path : k \in 1..Len(entries)}
            /\ \A k \in 1..Len(entries) :
                   LET last == Max({j \in 1..Len(entries) : entries[j].path = entries[k].path})
                   IN  /\ byPath[entries[k].path] = entries[last]
                       /\ \E g \in 1..Len(bySource) :
                              /\ bySource[g].source = entries[k].source
                              /\ Cardinality({j \in 1..Len(bySource[g].entries) :
                                                 bySource[g].entries[j] = entries[k]})
                                   = Cardinality({j \in 1..Len(entries) :
                                                     entries[j] = entries[k]})

\* two accepted records of one path that differ, the last one in the lookup
C11_Witness ==
    /\ pc = "done" /\ index # None
    /\ LET entries == index[1].entries[1]
       IN  /\ Len(entries) = 2
           /\ entries[1].path = entries[2].path
           /\ entries[1] # entries[2]
           /\ index[1].byPath[1][entries[1].path] = entries[2]

-----------------------------------------------------------------------------
(* What the reconciliation claims speak of. *)

\* the scanned entries, as pairs of source and id
ScannedEntries ==
    UNION {{<<statsBySource[k].source, statsBySource[k].skills[j].id>> :
               j \in 1..Len(statsBySource[k].skills)} : k \in 1..Len(statsBySource)}

\* @{source}/{id}
CanonicalPath(source, id) == <<AT>> \o source \o <<SLASH>> \o id

Reconciled == pc \in {"reported", "done"} /\ verified # None
Missing == verified[1].missing
Orphaned == verified[1].orphaned
Accepted == verified[1].indexEntries
AcceptedPaths == {Accepted[k].path : k \in 1..Len(Accepted)}

\* the places of the missing list that hold a record of a type
MissingOfType(type) == {k \in 1..Len(Missing) : Missing[k].type = type}

\* C12: a scanned entry (s, i) whose canonical path @s/i is the path of no
\* accepted index record has exactly one missing-index record, with source s,
\* id i and path @s/i; an entry whose canonical path is in the index has none.
C12_MissingIndex ==
    Reconciled =>
        \A e \in ScannedEntries :
            LET path == CanonicalPath(e[1], e[2])
                recs == {k \in MissingOfType("index") : Missing[k].path = path}
            IN  IF path \in AcceptedPaths
                THEN recs = {}
                ELSE /\ Cardinality(recs) = 1
                     /\ \A k \in recs : Missing[k].source = e[1] /\ Missing[k].id = e[2]

\* one scanned entry is in the index and another one is not
C12_Witness ==
    /\ Reconciled
    /\ Accepted # <<>>
    /\ \E e \in ScannedEntries : CanonicalPath(e[1], e[2]) \in AcceptedPaths
    /\ \E e \in ScannedEntries :
           /\ CanonicalPath(e[1], e[2]) \notin AcceptedPaths
           /\ \E k \in MissingOfType("index") : Missing[k].path = CanonicalPath(e[1], e[2])

\* translations[source][id] is there
Translated(source, id) ==
    \E k \in 1..Len(verified[1].translations) :
        /\ verified[1].translations[k].source = source
        /\ \E j \in 1..Len(verified[1].translations[k].ids) :
               verified[1].translations[k].ids[j] = id

\* the index record the by-path lookup gives for a path
RecordOfPath(path) ==
    Accepted[Max({k \in 1..Len(Accepted) : Accepted[k].path = path})]

\* C13: for a scanned entry whose canonical path is that of an index record R,
\* a missing-translation record is produced if and only if the translation
\* manifest has no entry at translations[R.source][R.id]: the lookup uses the
\* source and the id of the index record, not those of the directory.
C13_TranslationByIndexRecord ==
    Reconciled =>
        \A e \in ScannedEntries :
            LET path == CanonicalPath(e[1], e[2])
            IN  path \in AcceptedPaths =>
                    ((\E k \in MissingOfType("translation") : Missing[k].path = path)
                        <=> ~Translated(RecordOfPath(path).source, RecordOfPath(path).id))

\* root/{path}/SKILL.md is on disk: a marker file two levels below the skills
\* directory whose two directory names, joined by "/", spell the path
MarkerOnDisk(path) ==
    \E f \in files \cup dirs :
        /\ IsPrefix(SKILLS_DIR, f)
        /\ Depth(f) = 3
        /\ f[Len(f)] = SKILL_MD
        /\ f[Len(f) - 2] \o <<SLASH>> \o f[Len(f) - 1] = path

\* C14: for an accepted index record, a missing record of type skillDir with
\* the source, id and path of the record is produced if and only if
\* root/{path}/SKILL.md is not on disk, one for each index record, duplicate
\* records included.
C14_SkillDirPerRecord ==
    Reconciled =>
        /\ \A k \in 1..Len(Accepted) :
               LET r == Accepted[k]
                   same(m) == m.source = r.source /\ m.id = r.id /\ m.path = r.path
               IN  Cardinality({j \in MissingOfType("skillDir") : same(Missing[j])})
                     = IF MarkerOnDisk(r.path) THEN 0
                       ELSE Cardinality({j \in 1..Len(Accepted) : Accepted[j] = r})
        /\ Cardinality(MissingOfType("skillDir"))
             = Cardinality({k \in 1..Len(Accepted) : ~MarkerOnDisk(Accepted[k].path)})

\* the same record twice in the index, its marker file not on disk, and a
\* record whose marker file is there
C14_Witness ==
    /\ Reconciled
    /\ \E j, k \in 1..Len(Accepted) :
           j # k /\ Accepted[j] = Accepted[k] /\ ~MarkerOnDisk(Accepted[j].path)
    /\ Cardinality(MissingOfType("skillDir")) = 2

\* the pairs of source and id the translation manifest holds
TranslationPairs ==
    UNION {{<<verified[1].translations[k].source, verified[1].translations[k].ids[j]>> :
               j \in 1..Len(verified[1].translations[k].ids)} :
              k \in 1..Len(verified[1].translations)}

\* an accepted index record has this source and this id
Indexed(source, id) ==
    \E k \in 1..Len(Accepted) : Accepted[k].source = source /\ Accepted[k].id = id

C16_BrokenFolded ==
    Reconciled =>
        /\ \A b \in 1..Len(broken) :
               LET path == CanonicalPath(broken[b].source, broken[b].id)
               IN  /\ Cardinality({k \in MissingOfType("missingSkillMd") :
                                      /\ Missing[k].source = broken[b].source
                                      /\ Missing[k].id = broken[b].id}) = 1
                   /\ \A k \in MissingOfType("index") \cup MissingOfType("translation") :
                          Missing[k].path # path
                   /\ (\E k \in MissingOfType("skillDir") : Missing[k].path = path)
                          => path \in AcceptedPaths
        /\ Cardinality(MissingOfType("missingSkillMd")) = Len(broken)

\* a broken directory that no index record names, next to a scanned entry
\* that is missing from the index
C16_Witness ==
    /\ Reconciled
    /\ \E b \in 1..Len(broken) :
           /\ CanonicalPath(broken[b].source, broken[b].id) \notin AcceptedPaths
           /\ \E k \in MissingOfType("missingSkillMd") : Missing[k].id = broken[b].id
    /\ MissingOfType("index") # {}
    /\ MissingOfType("skillDir") # {}

-----------------------------------------------------------------------------
\* C17: the reconciliation against index.yaml and zh-CN.yaml is performed
\* only when --i18n or --all is on the command line; a run without them
\* reports the directory counts only.
C17_OptIn ==
    (pc \in {"reported", "done"} /\ "--i18n" \notin args /\ "--all" \notin args)
        => verified = None

\* C18: a run without --fix writes no file: README.md, docs/skills.md, the
\* skills tree and the registry manifests stay as they are at every step.
C18_ReadOnly ==
    [][("--fix" \notin args) =>
          /\ written' = <<>>
          /\ UNCHANGED <<dirs, files, docs, markerText, indexText, i18nText>>]_vars

\* a run without --fix has ended although a document bears a stale count
C18_Witness ==
    /\ pc = "done"
    /\ "--fix" \notin args
    /\ written = <<>>
    /\ \E d \in DOMAIN docs : rewriteCounts(docs[d], totalCount, sourceCount).modified
    /\ verified # None

-----------------------------------------------------------------------------
\* C19: the rewrite is idempotent: called a second time with the same
\* totalCount and sourceCount it finds nothing to change, leaves the text as
\* the first call left it, does not write the file and returns false.
C19_Idempotent ==
    (pc = "done" /\ Len(updated) = 2) =>
        /\ docs = prev[1].docs
        /\ written = prev[1].written
        /\ updated[2] = FALSE

\* the first call rewrote the document and the second one did not
C19_Witness ==
    /\ pc = "done"
    /\ updated = <<TRUE, FALSE>>
    /\ written = <<README_PATH>>

-----------------------------------------------------------------------------
(* What the rewrite claims speak of: the occurrences of the phrases. *)

CountPatterns == {skillCountPattern, sourceCountPattern, boldCountPattern, viewAllPattern}

\* the count a phrase is to carry
CountFor(pattern) == IF pattern.count = "total" THEN totalCount ELSE sourceCount

\* every occurrence of a phrase in a text, wherever it begins
AllOccurrences(s, pattern) ==
    {[first |-> i, last |-> patternMatchAt(s, i, pattern)[1].last,
      num |-> patternMatchAt(s, i, pattern)[1].num, pattern |-> pattern] :
        i \in {j \in 1..Len(s) : patternMatchAt(s, j, pattern) # None}}

\* the occurrences a scan from left to right finds from place i on, when an
\* occurrence may not begin before the one found last has ended
RECURSIVE ScanFrom(_, _, _)
ScanFrom(s, i, pattern) ==
    IF i > Len(s) THEN {}
    ELSE LET m == patternMatchAt(s, i, pattern)
         IN  IF m = None THEN ScanFrom(s, i + 1, pattern)
             ELSE {[first |-> i, last |-> m[1].last, num |-> m[1].num,
                    pattern |-> pattern]} \cup ScanFrom(s, m[1].last + 1, pattern)

ScannedOccurrences(s, pattern) == ScanFrom(s, 1, pattern)

Stale(o) == parseInt(o.num) # CountFor(o.pattern)

\* the text with each of the occurrences in occ replaced by its phrase with
\* the right count, and every other token kept
RECURSIVE Rebuilt(_, _, _)
Rebuilt(s, i, occ) ==
    IF i > Len(s) THEN <<>>
    ELSE LET here == {o \in occ : o.first = i}
         IN  IF here = {} THEN <<s[i]>> \o Rebuilt(s, i + 1, occ)
             ELSE LET o == CHOOSE x \in here : TRUE
                  IN  replacement(o.pattern, CountFor(o.pattern))
                          \o Rebuilt(s, o.last + 1, occ)

RewrittenOnce == pc = "once" /\ README_PATH \in DOMAIN docs
DocBefore == prev[1].docs[README_PATH]
DocAfter == docs[README_PATH]

\* C20 as stated: after one rewrite pass every occurrence of the three
\* skill-count phrases carries totalCount and every occurrence of the source
\* phrase carries sourceCount, and the text outside the occurrences whose
\* number was stale is unchanged token for token.
C20_EveryOccurrence ==
    RewrittenOnce =>
        /\ \A pattern \in CountPatterns :
               \A o \in AllOccurrences(DocAfter, pattern) : ~Stale(o)
        /\ DocAfter = Rebuilt(DocBefore, 1,
                               {o \in UNION {ScannedOccurrences(DocBefore, pt) :
                                                pt \in CountPatterns} : Stale(o)})

\* C20, amended: the same for the occurrences a scan from left to right
\* finds, where an occurrence that begins inside the one before it (a bold
\* phrase that opens with the closing stars of another) is not one.
C20_ScannedOccurrences ==
    RewrittenOnce =>
        /\ \A pattern \in CountPatterns :
               \A o \in ScannedOccurrences(DocAfter, pattern) : ~Stale(o)
        /\ DocAfter = Rebuilt(DocBefore, 1,
                               {o \in UNION {ScannedOccurrences(DocBefore, pt) :
                                                pt \in CountPatterns} : Stale(o)})

\* a document with a stale and a fresh occurrence and a number outside them:
\* the stale one is rewritten, the rest is as it was
C20_Witness ==
    /\ RewrittenOnce
    /\ updated = <<TRUE>>
    /\ \E pt \in CountPatterns : \E o \in ScannedOccurrences(DocBefore, pt) : Stale(o)
    /\ \E pt \in CountPatterns : \E o \in ScannedOccurrences(DocBefore, pt) : ~Stale(o)
    /\ DocBefore[Len(DocBefore)] = "5"
    /\ DocAfter[Len(DocAfter)] = "5"

-----------------------------------------------------------------------------
\* the matches of the four patterns in a text
Matches(s) == UNION {ScannedOccurrences(s, pt) : pt \in CountPatterns}

\* C21: in rewrite mode the file is written if and only if at least one match
\* of a pattern in it carries a number other than its count; when every
\* matched number equals its count, or nothing matches, no write is issued,
\* also when a matched phrase is spaced otherwise than the script writes it.
C21_WriteIffStale ==
    RewrittenOnce =>
        /\ (written = <<README_PATH>>) <=> (\E o \in Matches(DocBefore) : Stale(o))
        /\ written \in {<<>>, <<README_PATH>>}
        /\ updated = <<written # <<>> >>

\* a phrase with the right number, written without spaces and with a leading
\* zero, and no write
C21_Witness ==
    /\ RewrittenOnce
    /\ written = <<>>
    /\ \E o \in Matches(DocBefore) :
           /\ ~Stale(o)
           /\ SubSeq(DocBefore, o.first, o.last) # replacement(o.pattern, CountFor(o.pattern))
    /\ DocAfter = DocBefore

-----------------------------------------------------------------------------
Listed(q, paths) == \E k \in DOMAIN paths : paths[k] = q

\* C22: in rewrite mode a target document that does not exist is reported with
\* a warning, is not created and does not end the run: the other document is
\* rewritten with the same counts and the run ends with status 0.
C22_MissingDocument ==
    [][(pc = "reported" /\ "--fix" \in args) =>
          /\ pc' = "done"
          /\ exitCode' = Some(0)
          /\ UNCHANGED <<dirs, files>>
          /\ DOMAIN docs' = DOMAIN docs
          /\ \A q \in TargetDocs :
                IF q \in files
                THEN /\ ~Listed(q, warnings')
                     /\ docs'[q] = rewriteCounts(docs[q], totalCount, sourceCount).content
                ELSE /\ Listed(q, warnings')
                     /\ ~Listed(q, written')]_vars

\* README.md is missing and reported, docs/skills.md was stale and is written
C22_Witness ==
    /\ pc = "done"
    /\ "--fix" \in args
    /\ README_PATH \notin files
    /\ SKILLS_MD_PATH \in files
    /\ warnings = <<README_PATH>>
    /\ written = <<SKILLS_MD_PATH>>
    /\ updated = <<FALSE, TRUE>>
    /\ exitCode = Some(0)

-----------------------------------------------------------------------------
\* something is missing or orphaned
Findings == verified # None /\ (Missing # <<>> \/ Orphaned # <<>>)

\* C23: when no filesystem operation fails, every run comes to its end with
\* exit status 0, whatever reconciliation found, and never has another status;
\* with --fix the findings do not keep both documents from being gone through.
C23_ExitsZero ==
    /\ [](exitCode \in {None, Some(0)})
    /\ <>(/\ pc = "done"
          /\ exitCode = Some(0)
          /\ ("--fix" \in args => Len(updated) = 2))

\* a run with --fix found entries missing and translations orphaned, rewrote
\* a document and ended with status 0
C23_Witness ==
    /\ pc = "done"
    /\ exitCode = Some(0)
    /\ verified # None
    /\ Missing # <<>>
    /\ Orphaned # <<>>
    /\ "--fix" \in args
    /\ written # <<>>

-----------------------------------------------------------------------------
\* C24: no step of a run writes the index manifest, the translation manifest
\* or anything below the skills directory, and none creates or removes a file
\* or a directory; the only files written are README.md and docs/skills.md,
\* and a document whose text changes is one that was written.
C24_OnlyDocsWritten ==
    [][/\ UNCHANGED <<indexText, i18nText, markerText, dirs, files>>
       /\ \A k \in DOMAIN written' : written'[k] \in TargetDocs
       /\ DOMAIN docs' = DOMAIN docs
       /\ \A q \in DOMAIN docs :
             docs'[q] # docs[q] => q \in TargetDocs /\ Listed(q, written')]_vars

\* both documents were rewritten while the index lacks a scanned entry and the
\* translation manifest holds an orphan: the manifests are as they were
C24_Witness ==
    /\ pc = "done"
    /\ written = <<README_PATH, SKILLS_MD_PATH>>
    /\ Reconciled
    /\ MissingOfType("index") # {}
    /\ Orphaned # <<>>
    /\ indexText = IndexSample
    /\ i18nText = I18nSample

-----------------------------------------------------------------------------
\* the lines of the block that begin with name:
NameLines == {i \in 1..Len(BlockLines) : IsKeyLine(BlockLines[i], "name:")}

\* C25: when the block has a line that begins with name:, the extracted name
\* is text of such a line, or the directory name where such a line has no
\* value; it is never text of another line.
C25_NameFromItsLine ==
    (MetaDone /\ BlockPresent /\ NameLines # {}) =>
        \E i \in NameLines : TakenFrom(meta[1].name, BlockLines[i], DirName)

-----------------------------------------------------------------------------
\* the steps of a run, in their order
StepOrder ==
    {<<"start", "collected">>, <<"collected", "counted">>,
     <<"counted", "reported">>, <<"reported", "done">>}

-----------------------------------------------------------------------------
\* the records pass 1 pushed for a scanned entry: those of type index or
\* translation with the path of the entry
PassOneRecords(e) ==
    {k \in MissingOfType("index") \cup MissingOfType("translation") :
        Missing[k].path = CanonicalPath(e[1], e[2])}

\* C27: pass 1 pushes at most one missing record for a scanned entry, of type
\* index or of type translation and never both; an entry that is in neither
\* manifest has its index record alone.
C27_OneRecordPerEntry ==
    Reconciled =>
        \A e \in ScannedEntries :
            /\ Cardinality(PassOneRecords(e)) <= 1
            /\ (CanonicalPath(e[1], e[2]) \notin AcceptedPaths /\ ~Translated(e[1], e[2])) =>
                   \E k \in PassOneRecords(e) :
                       PassOneRecords(e) = {k} /\ Missing[k].type = "index"

\* beside a translation manifest that does not hold it, an entry the index
\* lacks has its index record alone, and an entry the index holds has its
\* translation record
C27_Witness ==
    /\ Reconciled
    /\ i18nPath \in files
    /\ \E e \in ScannedEntries :
           /\ CanonicalPath(e[1], e[2]) \notin AcceptedPaths
           /\ ~Translated(e[1], e[2])
           /\ \E k \in MissingOfType("index") : PassOneRecords(e) = {k}
    /\ \E e \in ScannedEntries :
           /\ CanonicalPath(e[1], e[2]) \in AcceptedPaths
           /\ \E k \in MissingOfType("translation") : PassOneRecords(e) = {k}

-----------------------------------------------------------------------------
\* C28: a manifest that is missing is treated as one with nothing in it:
\* verifyTranslations raises nothing and returns what it returns once the
\* file is there and empty. Without the index every scanned entry is missing
\* from the index, no skillDir record is made and every pair of the
\* translation manifest is orphaned; without the translation manifest nothing
\* is orphaned.
C28_MissingAsEmpty ==
    /\ (pc \in {"reported", "done"} /\ run = 2) =>
           /\ prev # None
           /\ verified = prev
    /\ (Reconciled /\ indexPath \notin files) =>
           /\ \A e \in ScannedEntries :
                 \E k \in MissingOfType("index") :
                     Missing[k].path = CanonicalPath(e[1], e[2])
           /\ MissingOfType("skillDir") = {}
           /\ {<<Orphaned[k].source, Orphaned[k].id>> : k \in 1..Len(Orphaned)}
                  = TranslationPairs
    /\ (Reconciled /\ i18nPath \notin files) => Orphaned = <<>>

\* the second run, with the index created empty, reports the scanned entry as
\* missing from the index and the pair of the translation manifest as
\* orphaned, as the first run did without the file
C28_Witness ==
    /\ pc = "done"
    /\ run = 2
    /\ verified = prev
    /\ indexText = <<>>
    /\ indexPath \in files
    /\ MissingOfType("index") # {}
    /\ Orphaned # <<>>

-----------------------------------------------------------------------------
(* What the claim on the translation manifest speaks of, read off its lines. *)

I18nLines == splitLines(i18nText)

\* a line of two spaces, a name and a colon; a line of four spaces, an id and
\* a colon
IsHeader(line) ==
    /\ Len(line) >= 4
    /\ line[1] = SP /\ line[2] = SP /\ line[3] # SP
    /\ line[Len(line)] = ":"
    /\ \A k \in 3..(Len(line) - 1) : line[k] \notin {SP, ":"}

IsSkillLine(line) ==
    /\ Len(line) >= 6
    /\ \A k \in 1..4 : line[k] = SP
    /\ line[Len(line)] = ":"
    /\ \A k \in 5..(Len(line) - 1) : line[k] \notin {SP, ":"}

HeaderName(line) == SubSeq(line, 3, Len(line) - 1)
SkillId(line) == SubSeq(line, 5, Len(line) - 1)

Headers == {i \in 1..Len(I18nLines) : IsHeader(I18nLines[i])}
HeaderNames == {HeaderName(I18nLines[i]) : i \in Headers}

\* the last header of a source, and the header a line stands under
LastHeader(source) == Max({i \in Headers : HeaderName(I18nLines[i]) = source})
OpenHeader(j) == {i \in Headers : i < j /\ \A h \in Headers : h < j => h <= i}

\* the ids of the skill lines that stand under the last header of a source
IdsAfterLastHeader(source) ==
    {SkillId(I18nLines[j]) :
        j \in {k \in 1..Len(I18nLines) :
                  IsSkillLine(I18nLines[k]) /\ OpenHeader(k) = {LastHeader(source)}}}

Parsed == verified[1].translations

\* C29: the parsed translations hold the sources of the header lines, each
\* once, and for a source the ids of the skill lines that stand under its last
\* header, each once: a skill line is recorded under the header opened last
\* before it and dropped where none is open, and a header seen again empties
\* the ids of its source.
C29_TranslationBlocks ==
    Reconciled =>
        /\ {Parsed[k].source : k \in 1..Len(Parsed)} = HeaderNames
        /\ \A k, l \in 1..Len(Parsed) : Parsed[k].source = Parsed[l].source => k = l
        /\ \A k \in 1..Len(Parsed) :
              /\ {Parsed[k].ids[j] : j \in 1..Len(Parsed[k].ids)}
                     = IdsAfterLastHeader(Parsed[k].source)
              /\ \A i, j \in 1..Len(Parsed[k].ids) :
                    Parsed[k].ids[i] = Parsed[k].ids[j] => i = j

\* a skill line before any header, and a header that comes again after a
\* skill line of its own: neither id is in the result
C29_Witness ==
    /\ Reconciled
    /\ I18nLines = << <<SP, SP, SP, SP, "y", ":">>,
                      <<SP, SP, "a", ":">>,
                      <<SP, SP, SP, SP, "x", ":">>,
                      <<SP, SP, "a", ":">> >>
    /\ Parsed = <<[source |-> <<"a">>, ids |-> <<>>]>>

-----------------------------------------------------------------------------
\* C30: an accepted index record whose path is the canonical path of a scanned
\* entry is never reported by pass 2: no missing record of type skillDir has
\* that path.
C30_ScannedNeverSkillDir ==
    Reconciled =>
        \A e \in ScannedEntries :
            CanonicalPath(e[1], e[2]) \in AcceptedPaths =>
                \A k \in MissingOfType("skillDir") :
                    Missing[k].path # CanonicalPath(e[1], e[2])

\* of two accepted records one has the path of a scanned entry and is not
\* reported, the other has no marker file and is
C30_Witness ==
    /\ Reconciled
    /\ Len(Accepted) = 2
    /\ \E e \in ScannedEntries : CanonicalPath(e[1], e[2]) \in AcceptedPaths
    /\ \E k \in MissingOfType("skillDir") :
           /\ Missing[k].path \in AcceptedPaths
           /\ \A e \in ScannedEntries : CanonicalPath(e[1], e[2]) # Missing[k].path

====
